---- MODULE Spec2Model ----
(***************************************************************************)
(* ChunkSparseMatrix (deal.II, lac/chunk_sparse_matrix.templates.h).       *)
(*                                                                         *)
(* A matrix object is the triple (cols, val, max_len) of the class: a      *)
(* non-owning pointer to a ChunkSparsityPattern, the owned value buffer    *)
(* and its allocated length.  Numbers are modelled as integers, vectors    *)
(* and buffers as functions over 0..len-1 so that every index expression   *)
(* of the source is written here exactly as it is written there.           *)
(***************************************************************************)
EXTENDS Integers, FiniteSets, Sequences, TLC

(***************************************************************************)
(* Bounds of the model.                                                    *)
(***************************************************************************)
MaxChunkSize == 2
MaxChunks == 2
MaxVal == 1
\* rows and columns of the one large pattern, on which operator=(0) takes
\* its parallel path
LargeRows == 2051

VARIABLES pats, mat, op, err, src, dst, aux, ret, acc, tasks,
          arg, realloc, stream

vars == <<pats, mat, op, err, src, dst, aux, ret, acc, tasks,
          arg, realloc, stream>>

(***************************************************************************)
(* Small helpers.                                                          *)
(***************************************************************************)
Min(a, b) == IF a < b THEN a ELSE b

RECURSIVE SumTo(_, _, _)
\* sum of f(k) for k in lo..hi-1, accumulated in increasing k as a for loop
SumTo(f(_), lo, hi) == IF lo >= hi THEN 0 ELSE f(lo) + SumTo(f, lo + 1, hi)

\* a Vector<number> of the given size holding x everywhere
ConstVec(n, x) == [i \in 0 .. n - 1 |-> x]

EmptyVec == ConstVec(0, 0)

\* element read through a raw iterator or operator(): an index outside the
\* storage has no defined value; the walk records it as out of bounds and
\* the caller decides what the build does with it
Rd(v, i) == IF i \in DOMAIN v THEN v[i] ELSE 0

(***************************************************************************)
(* ChunkSparsityPattern: chunk_size, logical rows/cols and the reduced     *)
(* compressed-row pattern (sparsity_pattern.rowstart / colnums).           *)
(***************************************************************************)
CeilDiv(a, b) == (a + b - 1) \div b

\* position of chunk e in the row-major enumeration of the stored set S
SlotOf(S, e) ==
  Cardinality({f \in S : f[1] < e[1] \/ (f[1] = e[1] /\ f[2] < e[2])})

MakePattern(cs, m, n, S) ==
  LET R == CeilDiv(m, cs)
      nnz == Cardinality(S)
  IN  [chunk_size |-> cs,
       rows       |-> m,
       cols       |-> n,
       sp_rows    |-> R,
       sp_cols    |-> CeilDiv(n, cs),
       rowstart   |-> [r \in 0 .. R |-> Cardinality({f \in S : f[1] < r})],
       colnums    |-> [k \in 0 .. nnz - 1 |->
                         (CHOOSE e \in S : SlotOf(S, e) = k)[2]]]

\* a default-constructed pattern: no rows, no columns, nothing stored
EmptyPattern ==
  [chunk_size |-> 1, rows |-> 0, cols |-> 0, sp_rows |-> 0, sp_cols |-> 0,
   rowstart |-> [r \in 0 .. 0 |-> 0], colnums |-> EmptyVec]

pattern_empty(P) == P.rows = 0 \/ P.cols = 0

n_nonzero_elements(P) == P.rowstart[P.sp_rows]

ChunkGrid(cs, m, n) == (0 .. CeilDiv(m, cs) - 1) \X (0 .. CeilDiv(n, cs) - 1)

AllPatterns ==
  UNION { UNION { UNION { { MakePattern(cs, m, n, S) :
                            S \in SUBSET ChunkGrid(cs, m, n) } :
                          n \in 1 .. cs * MaxChunks } :
                  m \in 1 .. cs * MaxChunks } :
          cs \in 1 .. MaxChunkSize }

\* sparsity_pattern(i, j): slot of chunk (i, j) or -1 (invalid_entry)
sp_index(P, i, j) ==
  LET hits == {k \in P.rowstart[i] .. P.rowstart[i + 1] - 1 : P.colnums[k] = j}
  IN  IF hits = {} THEN -1 ELSE CHOOSE k \in hits : TRUE

\* compute_location(i, j): index of the logical entry in val, or -1
compute_location(P, i, j) ==
  LET cs == P.chunk_size
      k  == sp_index(P, i \div cs, j \div cs)
  IN  IF k = -1 THEN -1
      ELSE k * cs * cs + (i % cs) * cs + (j % cs)

\* the logical entry A(i,j) held by a buffer under pattern P
Entry(P, values, i, j) ==
  IF compute_location(P, i, j) = -1 THEN 0
  ELSE values[compute_location(P, i, j)]

\* indices of val that hold logical entries / padding under P
LogicalIdx(P) ==
  {compute_location(P, i, j) : i \in 0 .. P.rows - 1, j \in 0 .. P.cols - 1}
    \ {-1}

Footprint(P) == n_nonzero_elements(P) * P.chunk_size * P.chunk_size

PaddingIdx(P) == (0 .. Footprint(P) - 1) \ LogicalIdx(P)

(***************************************************************************)
(* Chunk kernels (namespace internal::ChunkSparseMatrixImplementation).    *)
(* "matrix", "s0" and "d0" are the positions the iterator arguments point  *)
(* at inside val, the source vector and the destination vector.            *)
(***************************************************************************)
\* dst[i] += sum_j matrix_row[j] * src[j]
chunk_vmult_add(chunk_size, values, matrix, srcv, s0, dstv, d0) ==
  [x \in DOMAIN dstv |->
     IF x >= d0 /\ x < d0 + chunk_size
     THEN dstv[x] + SumTo(LAMBDA j : Rd(values, matrix + (x - d0) * chunk_size + j)
                                       * Rd(srcv, s0 + j), 0, chunk_size)
     ELSE dstv[x]]


\* mutant of chunk_vmult_subtract: the sum is added
chunk_vmult_subtract_adds(chunk_size, values, matrix, srcv, s0, dstv, d0) ==
  [x \in DOMAIN dstv |->
     IF x >= d0 /\ x < d0 + chunk_size
     THEN dstv[x] + SumTo(LAMBDA j : Rd(values, matrix + (x - d0) * chunk_size + j)
                                       * Rd(srcv, s0 + j), 0, chunk_size)
     ELSE dstv[x]]

\* dst[i] -= sum_j matrix_row[j] * src[j]
chunk_vmult_subtract(chunk_size, values, matrix, srcv, s0, dstv, d0) ==
  [x \in DOMAIN dstv |->
     IF x >= d0 /\ x < d0 + chunk_size
     THEN dstv[x] - SumTo(LAMBDA j : Rd(values, matrix + (x - d0) * chunk_size + j)
                                       * Rd(srcv, s0 + j), 0, chunk_size)
     ELSE dstv[x]]

\* dst[i] += sum_j matrix[j * chunk_size + i] * src[j]
chunk_Tvmult_add(chunk_size, values, matrix, srcv, s0, dstv, d0) ==
  [x \in DOMAIN dstv |->
     IF x >= d0 /\ x < d0 + chunk_size
     THEN dstv[x] + SumTo(LAMBDA j : Rd(values, matrix + j * chunk_size + (x - d0))
                                       * Rd(srcv, s0 + j), 0, chunk_size)
     ELSE dstv[x]]


\* mutant of chunk_matrix_scalar_product: the chunk is read column by column
chunk_matrix_scalar_product_transposed(chunk_size, values, matrix, u, u0, v, v0) ==
  SumTo(LAMBDA i : Rd(u, u0 + i)
                     * SumTo(LAMBDA j : Rd(values, matrix + j * chunk_size + i)
                                          * Rd(v, v0 + j), 0, chunk_size),
        0, chunk_size)

\* result = sum_i u[i] * (sum_j matrix_row[j] * v[j])
chunk_matrix_scalar_product(chunk_size, values, matrix, u, u0, v, v0) ==
  SumTo(LAMBDA i : Rd(u, u0 + i)
                     * SumTo(LAMBDA j : Rd(values, matrix + i * chunk_size + j)
                                          * Rd(v, v0 + j), 0, chunk_size),
        0, chunk_size)

(***************************************************************************)
(* vmult_add_on_subrange.  The walk state st carries the three cursors of  *)
(* the function (dst_ptr, val_ptr, colnum_ptr, as offsets from the start   *)
(* of their arrays), the destination vector, and the index sets the walk   *)
(* has touched in the source vector (cidx: indexed by column) and in the   *)
(* destination vector (ridx: indexed by row; every access there is a read  *)
(* followed by a write).                                                   *)
(***************************************************************************)
\* for r < nr, for c < nc: dst_ptr[r] += val_ptr[r*chunk_size+c] * src(col*chunk_size+c)
vmult_bounded_loops(P, values, srcv, st, nr, nc) ==
  LET cs  == P.chunk_size
      col == Rd(P.colnums, st.colnum_ptr)
  IN  [st EXCEPT
         !.dst = [x \in DOMAIN st.dst |->
                    IF x >= st.dst_ptr /\ x < st.dst_ptr + nr
                    THEN st.dst[x]
                         + SumTo(LAMBDA c :
                                   Rd(values, st.val_ptr + (x - st.dst_ptr) * cs + c)
                                     * Rd(srcv, col * cs + c), 0, nc)
                    ELSE st.dst[x]],
         !.ridx = @ \cup (IF nc > 0 THEN st.dst_ptr .. st.dst_ptr + nr - 1 ELSE {}),
         !.cidx = @ \cup (IF nr > 0 THEN col * cs .. col * cs + nc - 1 ELSE {})]

\* the call of chunk_vmult_add on a regular chunk
vmult_regular_chunk(P, values, srcv, st) ==
  LET cs  == P.chunk_size
      col == Rd(P.colnums, st.colnum_ptr)
  IN  [st EXCEPT
         !.dst  = chunk_vmult_add(cs, values, st.val_ptr, srcv, col * cs,
                                  st.dst, st.dst_ptr),
         !.ridx = @ \cup (st.dst_ptr .. st.dst_ptr + cs - 1),
         !.cidx = @ \cup (col * cs .. col * cs + cs - 1)]

\* advance that moves val_ptr by one row of the chunk only
advance_chunk_by_row(P, st) ==
  [st EXCEPT !.colnum_ptr = @ + 1, !.val_ptr = @ + P.chunk_size]

\* ++colnum_ptr; val_ptr += chunk_size * chunk_size
advance_chunk(P, st) ==
  [st EXCEPT !.colnum_ptr = @ + 1,
             !.val_ptr = @ + P.chunk_size * P.chunk_size]

RECURSIVE vmult_regular_row_chunks(_, _, _, _, _)
\* while (val_ptr != val_end_of_row) in a regular chunk row
vmult_regular_row_chunks(P, values, srcv, st, chunk_row) ==
  LET cs == P.chunk_size
      val_end_of_row == P.rowstart[chunk_row + 1] * cs * cs
      irregular_col == P.cols \div cs
      n_filled_last_cols == P.cols % cs
  IN  IF st.val_ptr = val_end_of_row THEN st
      ELSE IF st.colnum_ptr >= n_nonzero_elements(P)
           THEN [st EXCEPT !.overrun = TRUE]
      ELSE vmult_regular_row_chunks(P, values, srcv,
             advance_chunk(P,
               IF Rd(P.colnums, st.colnum_ptr) # irregular_col
               THEN vmult_regular_chunk(P, values, srcv, st)
               ELSE vmult_bounded_loops(P, values, srcv, st, cs,
                                        n_filled_last_cols)),
             chunk_row)

RECURSIVE vmult_last_row_chunks(_, _, _, _, _)
\* while (val_ptr != val_end_of_row) in the last, partly filled chunk row
vmult_last_row_chunks(P, values, srcv, st, chunk_row) ==
  LET cs == P.chunk_size
      val_end_of_row == P.rowstart[chunk_row + 1] * cs * cs
      irregular_col == P.cols \div cs
      n_filled_last_rows == P.rows % cs
      n_filled_last_cols == P.cols % cs
  IN  IF st.val_ptr = val_end_of_row THEN st
      ELSE IF st.colnum_ptr >= n_nonzero_elements(P)
           THEN [st EXCEPT !.overrun = TRUE]
      ELSE vmult_last_row_chunks(P, values, srcv,
             advance_chunk(P,
               IF Rd(P.colnums, st.colnum_ptr) # irregular_col
               THEN vmult_bounded_loops(P, values, srcv, st,
                                        n_filled_last_rows, cs)
               ELSE vmult_bounded_loops(P, values, srcv, st,
                                        n_filled_last_rows, n_filled_last_cols)),
             chunk_row)

RECURSIVE vmult_regular_rows(_, _, _, _, _, _)
\* for (chunk_row = begin_row; chunk_row < last_regular_row; ++chunk_row)
vmult_regular_rows(P, values, srcv, st, chunk_row, last_regular_row) ==
  IF chunk_row >= last_regular_row THEN st
  ELSE LET after == vmult_regular_row_chunks(P, values, srcv, st, chunk_row)
       IN  vmult_regular_rows(P, values, srcv,
                              [after EXCEPT !.dst_ptr = @ + P.chunk_size],
                              chunk_row + 1, last_regular_row)


\* mutant of vmult_entry: dst_ptr starts at dst.begin() for every subrange
vmult_entry_dst_begin(P, begin_row, dstv) ==
  [dst        |-> dstv,
   dst_ptr    |-> 0,
   val_ptr    |-> P.rowstart[begin_row] * P.chunk_size * P.chunk_size,
   colnum_ptr |-> P.rowstart[begin_row],
   cidx       |-> {},
   ridx       |-> {},
   overrun    |-> FALSE]

\* the cursors at function entry
vmult_entry(P, begin_row, dstv) ==
  [dst        |-> dstv,
   dst_ptr    |-> P.chunk_size * begin_row,
   val_ptr    |-> P.rowstart[begin_row] * P.chunk_size * P.chunk_size,
   colnum_ptr |-> P.rowstart[begin_row],
   cidx       |-> {},
   ridx       |-> {},
   overrun    |-> FALSE]


\* mutant of vmult_add_on_subrange: the last chunk row is walked by every
\* subrange, the test that the subrange ends there is missing
vmult_add_on_subrange_any_end(P, begin_row, end_row, values, srcv, dstv) ==
  LET m == P.rows
      chunk_size == P.chunk_size
      n_filled_last_rows == m % chunk_size
      last_regular_row ==
        IF n_filled_last_rows > 0 THEN Min(m \div chunk_size, end_row)
                                  ELSE end_row
      regular == vmult_regular_rows(P, values, srcv,
                                    vmult_entry(P, begin_row, dstv),
                                    begin_row, last_regular_row)
  IN  IF n_filled_last_rows > 0
      THEN [vmult_last_row_chunks(P, values, srcv,
              [regular EXCEPT
                 !.dst_ptr = chunk_size * (m \div chunk_size),
                 !.val_ptr = P.rowstart[m \div chunk_size] * chunk_size * chunk_size,
                 !.colnum_ptr = P.rowstart[m \div chunk_size]],
              m \div chunk_size)
            EXCEPT !.overrun = FALSE]
      ELSE regular

vmult_add_on_subrange(P, begin_row, end_row, values, srcv, dstv) ==
  LET m == P.rows
      chunk_size == P.chunk_size
      n_filled_last_rows == m % chunk_size
      last_regular_row ==
        IF n_filled_last_rows > 0 THEN Min(m \div chunk_size, end_row)
                                  ELSE end_row
      regular == vmult_regular_rows(P, values, srcv,
                                    vmult_entry(P, begin_row, dstv),
                                    begin_row, last_regular_row)
  IN  IF n_filled_last_rows > 0 /\ end_row = (m \div chunk_size) + 1
      THEN vmult_last_row_chunks(P, values, srcv, regular, last_regular_row)
      ELSE regular

(***************************************************************************)
(* The matrix object and the inputs of the arithmetic operations.          *)
(* cols = 0 stands for the null pointer, any other value names a pattern   *)
(* object of pats; alloc tells whether val holds an array (an array of     *)
(* length 0 is still an array).                                            *)
(***************************************************************************)
NullMatrix == [cols |-> 0, alloc |-> FALSE, val |-> EmptyVec, max_len |-> 0]

\* the buffers of length len that are zero except for x at index k
UnitBuffer(len, k, x) == [i \in 0 .. len - 1 |-> IF i = k THEN x ELSE 0]

\* value buffers under P with zero padding: all zero, one logical entry set,
\* or every logical entry set to the same value
MatrixValues(P) ==
  {ConstVec(Footprint(P), 0)}
    \cup {UnitBuffer(Footprint(P), k, x) : k \in LogicalIdx(P), x \in 1 .. MaxVal}
    \cup {[i \in 0 .. Footprint(P) - 1 |-> IF i \in LogicalIdx(P) THEN x ELSE 0] :
            x \in 1 .. MaxVal}

\* vectors of size n: zero, constant, or one entry set
Vectors(n) ==
  {ConstVec(n, x) : x \in 0 .. MaxVal}
    \cup {UnitBuffer(n, k, x) : k \in 0 .. n - 1, x \in 1 .. MaxVal}

NoAccess == [cidx |-> {}, ridx |-> {}, overrun |-> FALSE]

Size(v) == Cardinality(DOMAIN v)

\* the outcome of a call that a failed entry check ended
Failed(e, dstv) == [err |-> e, dst |-> dstv, result |-> 0] @@ NoAccess

SetMin(S) == CHOOSE x \in S : \A y \in S : x <= y

(***************************************************************************)
(* parallel::apply_to_subranges(begin, end, f, grainsize): f is called on  *)
(* contiguous subranges that partition [begin, end).  cuts is the set of   *)
(* interior split points the scheduler chose.  Run here one subrange       *)
(* after the other; SpecPar below runs them as concurrent tasks.           *)
(***************************************************************************)
RECURSIVE apply_to_subranges(_, _, _, _, _, _, _)
apply_to_subranges(P, values, srcv, st, begin, end, cuts) ==
  IF begin >= end THEN st
  ELSE LET nxt == SetMin({c \in cuts : c > begin} \cup {end})
           r   == vmult_add_on_subrange(P, begin, nxt, values, srcv, st.dst)
       IN  apply_to_subranges(P, values, srcv,
                              [dst     |-> r.dst,
                               cidx    |-> st.cidx \cup r.cidx,
                               ridx    |-> st.ridx \cup r.ridx,
                               overrun |-> st.overrun \/ r.overrun],
                              nxt, end, cuts)

\* the Asserts at the head of vmult_add, in their order
vmult_add_checks(M, P, dstv, srcv) ==
  IF M.cols = 0 THEN "ExcNeedsSparsityPattern"
  ELSE IF ~M.alloc THEN "ExcNotInitialized"
  ELSE IF P.rows # Size(dstv) THEN "ExcDimensionMismatch"
  ELSE IF P.cols # Size(srcv) THEN "ExcDimensionMismatch"
  ELSE "none"

\* ChunkSparseMatrix::vmult_add: the entry checks, then the subranges
vmult_add(M, P, dstv, srcv, cuts) ==
  IF vmult_add_checks(M, P, dstv, srcv) # "none"
  THEN Failed(vmult_add_checks(M, P, dstv, srcv), dstv)
  ELSE [err |-> "none", result |-> 0]
         @@ apply_to_subranges(P, M.val, srcv, [dst |-> dstv] @@ NoAccess,
                               0, P.sp_rows, cuts)

\* mutant of vmult: the "dst = 0" before vmult_add is missing
vmult_keeps_dst(M, P, dstv, srcv, cuts) ==
  vmult_add(M, P, dstv, srcv, cuts)

\* ChunkSparseMatrix::vmult: the entry checks, dst = 0, vmult_add
vmult(M, P, dstv, srcv, cuts) ==
  IF M.cols = 0 THEN Failed("ExcNeedsSparsityPattern", dstv)
  ELSE IF ~M.alloc THEN Failed("ExcNotInitialized", dstv)
  ELSE IF P.rows # Size(dstv) THEN Failed("ExcDimensionMismatch", dstv)
  ELSE IF P.cols # Size(srcv) THEN Failed("ExcDimensionMismatch", dstv)
  ELSE vmult_add(M, P, ConstVec(Size(dstv), 0), srcv, cuts)

(***************************************************************************)
(* The member functions that walk all chunk rows themselves: Tvmult_add,   *)
(* matrix_scalar_product and residual.  Their walk state st carries        *)
(* val_ptr and colnum_ptr, the row cursor ptr (dst_ptr in residual, u_ptr  *)
(* in matrix_scalar_product, unused in Tvmult_add), the vector written     *)
(* (dst), the scalar accumulated (result), and the index sets touched in   *)
(* the column-indexed operand (cidx) and in the row-indexed operand        *)
(* (ridx).  In Tvmult_add the column-indexed operand is dst and the        *)
(* row-indexed one is src; cidx/ridx name them by role.                    *)
(***************************************************************************)
walk_entry(dstv) ==
  [dst |-> dstv, ptr |-> 0, val_ptr |-> 0, colnum_ptr |-> 0, result |-> 0,
   cidx |-> {}, ridx |-> {}, overrun |-> FALSE]


\* mutant of is_regular_col: the boundary column is compared with n_cols()
\* instead of n_cols() - 1, so no chunk is ever taken as padded
is_regular_col_off_by_one(P, st) ==
  (P.cols % P.chunk_size = 0) \/ (Rd(P.colnums, st.colnum_ptr) # P.sp_cols)

\* (cols_have_padding == false) || (*colnum_ptr != sparsity_pattern.n_cols() - 1)
is_regular_col(P, st) ==
  (P.cols % P.chunk_size = 0) \/ (Rd(P.colnums, st.colnum_ptr) # P.sp_cols - 1)

\* Tvmult_add: the kernel call on a regular chunk
Tvmult_add_regular_chunk(P, values, x, st, chunk_row) ==
  LET cs  == P.chunk_size
      col == Rd(P.colnums, st.colnum_ptr)
  IN  [st EXCEPT
         !.dst  = chunk_Tvmult_add(cs, values, st.val_ptr, x, chunk_row * cs,
                                   st.dst, col * cs),
         !.cidx = @ \cup (col * cs .. col * cs + cs - 1),
         !.ridx = @ \cup (chunk_row * cs .. chunk_row * cs + cs - 1)]

\* Tvmult_add: for r < nr, for c < nc on a chunk with padding
Tvmult_add_bounded_loops(P, values, x, st, chunk_row, nr, nc) ==
  LET cs  == P.chunk_size
      col == Rd(P.colnums, st.colnum_ptr)
  IN  [st EXCEPT
         \* dst(col*chunk_size + c) += val_ptr[r*chunk_size + c] * src(chunk_row*chunk_size + r)
         !.dst = [i \in DOMAIN st.dst |->
                    IF i >= col * cs /\ i < col * cs + nc
                    THEN st.dst[i]
                         + SumTo(LAMBDA r :
                                   Rd(values, st.val_ptr + r * cs + (i - col * cs))
                                     * Rd(x, chunk_row * cs + r), 0, nr)
                    ELSE st.dst[i]],
         !.cidx = @ \cup (IF nr > 0 THEN col * cs .. col * cs + nc - 1 ELSE {}),
         !.ridx = @ \cup (IF nc > 0 THEN chunk_row * cs .. chunk_row * cs + nr - 1
                                    ELSE {})]

RECURSIVE Tvmult_add_regular_row_chunks(_, _, _, _, _)
\* Tvmult_add: while (val_ptr != val_end_of_row) in a regular chunk row
Tvmult_add_regular_row_chunks(P, values, x, st, chunk_row) ==
  LET cs == P.chunk_size
      val_end_of_row == P.rowstart[chunk_row + 1] * cs * cs
  IN  IF st.val_ptr = val_end_of_row THEN st
      ELSE IF st.colnum_ptr >= n_nonzero_elements(P)
           THEN [st EXCEPT !.overrun = TRUE]
      ELSE Tvmult_add_regular_row_chunks(P, values, x,
             advance_chunk(P,
               IF is_regular_col(P, st)
               THEN Tvmult_add_regular_chunk(P, values, x, st, chunk_row)
               ELSE Tvmult_add_bounded_loops(P, values, x, st, chunk_row,
                                         cs, P.cols % cs)),
             chunk_row)

RECURSIVE Tvmult_add_last_row_chunks(_, _, _, _, _)
\* Tvmult_add: while (val_ptr != val_end_of_row) in the last, partly filled chunk row
Tvmult_add_last_row_chunks(P, values, x, st, chunk_row) ==
  LET cs == P.chunk_size
      val_end_of_row == P.rowstart[chunk_row + 1] * cs * cs
  IN  IF st.val_ptr = val_end_of_row THEN st
      ELSE IF st.colnum_ptr >= n_nonzero_elements(P)
           THEN [st EXCEPT !.overrun = TRUE]
      ELSE Tvmult_add_last_row_chunks(P, values, x,
             advance_chunk(P,
               IF is_regular_col(P, st)
               THEN Tvmult_add_bounded_loops(P, values, x, st, chunk_row,
                                         P.rows % cs, cs)
               ELSE Tvmult_add_bounded_loops(P, values, x, st, chunk_row,
                                         P.rows % cs, P.cols % cs)),
             chunk_row)

RECURSIVE Tvmult_add_regular_rows(_, _, _, _, _, _)
\* Tvmult_add: for (chunk_row = 0; chunk_row < n_regular_chunk_rows; ++chunk_row)
Tvmult_add_regular_rows(P, values, x, st, chunk_row, n_regular_chunk_rows) ==
  IF chunk_row >= n_regular_chunk_rows THEN st
  ELSE LET after == Tvmult_add_regular_row_chunks(P, values, x, st, chunk_row)
       IN  Tvmult_add_regular_rows(P, values, x, after,
                               chunk_row + 1, n_regular_chunk_rows)

\* Tvmult_add: both loops, from the first chunk row to the last
Tvmult_add_walk(P, values, x, st) ==
  LET n_chunk_rows == P.sp_rows
      rows_have_padding == (P.rows % P.chunk_size # 0)
      n_regular_chunk_rows ==
        IF rows_have_padding THEN n_chunk_rows - 1 ELSE n_chunk_rows
      regular == Tvmult_add_regular_rows(P, values, x, st, 0, n_regular_chunk_rows)
  IN  IF rows_have_padding
      THEN Tvmult_add_last_row_chunks(P, values, x, regular, n_chunk_rows - 1)
      ELSE regular

\* residual: the kernel call on a regular chunk
residual_regular_chunk(P, values, x, st, chunk_row) ==
  LET cs  == P.chunk_size
      col == Rd(P.colnums, st.colnum_ptr)
  IN  [st EXCEPT
         !.dst  = chunk_vmult_subtract(cs, values, st.val_ptr, x, col * cs,
                                       st.dst, st.ptr),
         !.cidx = @ \cup (col * cs .. col * cs + cs - 1),
         !.ridx = @ \cup (st.ptr .. st.ptr + cs - 1)]

\* residual: for r < nr, for c < nc on a chunk with padding
residual_bounded_loops(P, values, x, st, chunk_row, nr, nc) ==
  LET cs  == P.chunk_size
      col == Rd(P.colnums, st.colnum_ptr)
  IN  [st EXCEPT
         \* dst(chunk_row*chunk_size + r) -= val_ptr[r*chunk_size + c] * u(col*chunk_size + c)
         !.dst = [i \in DOMAIN st.dst |->
                    IF i >= chunk_row * cs /\ i < chunk_row * cs + nr
                    THEN st.dst[i]
                         - SumTo(LAMBDA c :
                                   Rd(values, st.val_ptr + (i - chunk_row * cs) * cs + c)
                                     * Rd(x, col * cs + c), 0, nc)
                    ELSE st.dst[i]],
         !.cidx = @ \cup (IF nr > 0 THEN col * cs .. col * cs + nc - 1 ELSE {}),
         !.ridx = @ \cup (IF nc > 0 THEN chunk_row * cs .. chunk_row * cs + nr - 1
                                    ELSE {})]

RECURSIVE residual_regular_row_chunks(_, _, _, _, _)
\* residual: while (val_ptr != val_end_of_row) in a regular chunk row
residual_regular_row_chunks(P, values, x, st, chunk_row) ==
  LET cs == P.chunk_size
      val_end_of_row == P.rowstart[chunk_row + 1] * cs * cs
  IN  IF st.val_ptr = val_end_of_row THEN st
      ELSE IF st.colnum_ptr >= n_nonzero_elements(P)
           THEN [st EXCEPT !.overrun = TRUE]
      ELSE residual_regular_row_chunks(P, values, x,
             advance_chunk(P,
               IF is_regular_col(P, st)
               THEN residual_regular_chunk(P, values, x, st, chunk_row)
               ELSE residual_bounded_loops(P, values, x, st, chunk_row,
                                         cs, P.cols % cs)),
             chunk_row)

RECURSIVE residual_last_row_chunks(_, _, _, _, _)
\* residual: while (val_ptr != val_end_of_row) in the last, partly filled chunk row
residual_last_row_chunks(P, values, x, st, chunk_row) ==
  LET cs == P.chunk_size
      val_end_of_row == P.rowstart[chunk_row + 1] * cs * cs
  IN  IF st.val_ptr = val_end_of_row THEN st
      ELSE IF st.colnum_ptr >= n_nonzero_elements(P)
           THEN [st EXCEPT !.overrun = TRUE]
      ELSE residual_last_row_chunks(P, values, x,
             advance_chunk(P,
               IF is_regular_col(P, st)
               THEN residual_bounded_loops(P, values, x, st, chunk_row,
                                         P.rows % cs, cs)
               ELSE residual_bounded_loops(P, values, x, st, chunk_row,
                                         P.rows % cs, P.cols % cs)),
             chunk_row)

RECURSIVE residual_regular_rows(_, _, _, _, _, _)
\* residual: for (chunk_row = 0; chunk_row < n_regular_chunk_rows; ++chunk_row)
residual_regular_rows(P, values, x, st, chunk_row, n_regular_chunk_rows) ==
  IF chunk_row >= n_regular_chunk_rows THEN st
  ELSE LET after == residual_regular_row_chunks(P, values, x, st, chunk_row)
       IN  residual_regular_rows(P, values, x, [after EXCEPT !.ptr = @ + P.chunk_size],
                               chunk_row + 1, n_regular_chunk_rows)

\* residual: both loops, from the first chunk row to the last
residual_walk(P, values, x, st) ==
  LET n_chunk_rows == P.sp_rows
      rows_have_padding == (P.rows % P.chunk_size # 0)
      n_regular_chunk_rows ==
        IF rows_have_padding THEN n_chunk_rows - 1 ELSE n_chunk_rows
      regular == residual_regular_rows(P, values, x, st, 0, n_regular_chunk_rows)
  IN  IF rows_have_padding
      THEN residual_last_row_chunks(P, values, x, regular, n_chunk_rows - 1)
      ELSE regular

\* matrix_scalar_product: the kernel call on a regular chunk
matrix_scalar_product_regular_chunk(P, values, x, st, chunk_row) ==
  LET cs  == P.chunk_size
      col == Rd(P.colnums, st.colnum_ptr)
  IN  [st EXCEPT
         !.result = @ + chunk_matrix_scalar_product(cs, values, st.val_ptr,
                                                    x.u, st.ptr, x.v, col * cs),
         !.cidx = @ \cup (col * cs .. col * cs + cs - 1),
         !.ridx = @ \cup (st.ptr .. st.ptr + cs - 1)]

\* matrix_scalar_product: for r < nr, for c < nc on a chunk with padding
matrix_scalar_product_bounded_loops(P, values, x, st, chunk_row, nr, nc) ==
  LET cs  == P.chunk_size
      col == Rd(P.colnums, st.colnum_ptr)
  IN  [st EXCEPT
         \* result += u(chunk_row*chunk_size + r) * (val_ptr[r*chunk_size + c] * v(col*chunk_size + c))
         !.result = @ + SumTo(LAMBDA r :
                          SumTo(LAMBDA c :
                                  Rd(x.u, chunk_row * cs + r)
                                    * (Rd(values, st.val_ptr + r * cs + c)
                                         * Rd(x.v, col * cs + c)), 0, nc), 0, nr),
         !.cidx = @ \cup (IF nr > 0 THEN col * cs .. col * cs + nc - 1 ELSE {}),
         !.ridx = @ \cup (IF nc > 0 THEN chunk_row * cs .. chunk_row * cs + nr - 1
                                    ELSE {})]

RECURSIVE matrix_scalar_product_regular_row_chunks(_, _, _, _, _)
\* matrix_scalar_product: while (val_ptr != val_end_of_row) in a regular chunk row
matrix_scalar_product_regular_row_chunks(P, values, x, st, chunk_row) ==
  LET cs == P.chunk_size
      val_end_of_row == P.rowstart[chunk_row + 1] * cs * cs
  IN  IF st.val_ptr = val_end_of_row THEN st
      ELSE IF st.colnum_ptr >= n_nonzero_elements(P)
           THEN [st EXCEPT !.overrun = TRUE]
      ELSE matrix_scalar_product_regular_row_chunks(P, values, x,
             advance_chunk(P,
               IF is_regular_col(P, st)
               THEN matrix_scalar_product_regular_chunk(P, values, x, st, chunk_row)
               ELSE matrix_scalar_product_bounded_loops(P, values, x, st, chunk_row,
                                         cs, P.cols % cs)),
             chunk_row)

RECURSIVE matrix_scalar_product_last_row_chunks(_, _, _, _, _)
\* matrix_scalar_product: while (val_ptr != val_end_of_row) in the last, partly filled chunk row
matrix_scalar_product_last_row_chunks(P, values, x, st, chunk_row) ==
  LET cs == P.chunk_size
      val_end_of_row == P.rowstart[chunk_row + 1] * cs * cs
  IN  IF st.val_ptr = val_end_of_row THEN st
      ELSE IF st.colnum_ptr >= n_nonzero_elements(P)
           THEN [st EXCEPT !.overrun = TRUE]
      ELSE matrix_scalar_product_last_row_chunks(P, values, x,
             advance_chunk(P,
               IF is_regular_col(P, st)
               THEN matrix_scalar_product_bounded_loops(P, values, x, st, chunk_row,
                                         P.rows % cs, cs)
               ELSE matrix_scalar_product_bounded_loops(P, values, x, st, chunk_row,
                                         P.rows % cs, P.cols % cs)),
             chunk_row)

RECURSIVE matrix_scalar_product_regular_rows(_, _, _, _, _, _)
\* matrix_scalar_product: for (chunk_row = 0; chunk_row < n_regular_chunk_rows; ++chunk_row)
matrix_scalar_product_regular_rows(P, values, x, st, chunk_row, n_regular_chunk_rows) ==
  IF chunk_row >= n_regular_chunk_rows THEN st
  ELSE LET after == matrix_scalar_product_regular_row_chunks(P, values, x, st, chunk_row)
       IN  matrix_scalar_product_regular_rows(P, values, x, [after EXCEPT !.ptr = @ + P.chunk_size],
                               chunk_row + 1, n_regular_chunk_rows)

\* matrix_scalar_product: both loops, from the first chunk row to the last
matrix_scalar_product_walk(P, values, x, st) ==
  LET n_chunk_rows == P.sp_rows
      rows_have_padding == (P.rows % P.chunk_size # 0)
      n_regular_chunk_rows ==
        IF rows_have_padding THEN n_chunk_rows - 1 ELSE n_chunk_rows
      regular == matrix_scalar_product_regular_rows(P, values, x, st, 0, n_regular_chunk_rows)
  IN  IF rows_have_padding
      THEN matrix_scalar_product_last_row_chunks(P, values, x, regular, n_chunk_rows - 1)
      ELSE regular


\* ChunkSparseMatrix::Tvmult_add: the entry checks, then the walk
Tvmult_add(M, P, dstv, srcv) ==
  IF M.cols = 0 THEN Failed("ExcNeedsSparsityPattern", dstv)
  ELSE IF ~M.alloc THEN Failed("ExcNotInitialized", dstv)
  ELSE IF P.rows # Size(dstv) THEN Failed("ExcDimensionMismatch", dstv)
  ELSE IF P.cols # Size(srcv) THEN Failed("ExcDimensionMismatch", dstv)
  ELSE [err |-> "none"] @@ Tvmult_add_walk(P, M.val, srcv, walk_entry(dstv))

\* ChunkSparseMatrix::Tvmult: the entry checks, dst = 0, Tvmult_add
Tvmult(M, P, dstv, srcv) ==
  IF ~M.alloc THEN Failed("ExcNotInitialized", dstv)
  ELSE IF M.cols = 0 THEN Failed("ExcNeedsSparsityPattern", dstv)
  ELSE IF P.cols # Size(dstv) THEN Failed("ExcDimensionMismatch", dstv)
  ELSE IF P.rows # Size(srcv) THEN Failed("ExcDimensionMismatch", dstv)
  ELSE IF P.rows # Size(dstv) THEN Failed("ExcDimensionMismatch", dstv)
  ELSE IF P.cols # Size(srcv) THEN Failed("ExcDimensionMismatch", dstv)
  ELSE Tvmult_add(M, P, ConstVec(Size(dstv), 0), srcv)

\* ChunkSparseMatrix::matrix_scalar_product
matrix_scalar_product(M, P, u, v) ==
  IF M.cols = 0 THEN Failed("ExcNeedsSparsityPattern", EmptyVec)
  ELSE IF ~M.alloc THEN Failed("ExcNotInitialized", EmptyVec)
  ELSE IF P.rows # Size(u) THEN Failed("ExcDimensionMismatch", EmptyVec)
  ELSE IF P.cols # Size(v) THEN Failed("ExcDimensionMismatch", EmptyVec)
  ELSE [err |-> "none"]
         @@ matrix_scalar_product_walk(P, M.val, [u |-> u, v |-> v],
                                       walk_entry(EmptyVec))

\* Vector::l2_norm(), held as its square: the sum of the squared elements
l2_norm_sqr(v) == SumTo(LAMBDA i : v[i] * v[i], 0, Size(v))

\* ChunkSparseMatrix::residual: the entry checks, dst = b, the walk, the norm
residual(M, P, dstv, u, b) ==
  IF M.cols = 0 THEN Failed("ExcNeedsSparsityPattern", dstv)
  ELSE IF ~M.alloc THEN Failed("ExcNotInitialized", dstv)
  ELSE IF P.rows # Size(dstv) THEN Failed("ExcDimensionMismatch", dstv)
  ELSE IF P.rows # Size(b) THEN Failed("ExcDimensionMismatch", dstv)
  ELSE IF P.cols # Size(u) THEN Failed("ExcDimensionMismatch", dstv)
  ELSE LET w == residual_walk(P, M.val, u, walk_entry(b))
       IN  [err |-> "none"] @@ [w EXCEPT !.result = l2_norm_sqr(w.dst)]

(***************************************************************************)
(* SpecMul: the arithmetic operations on one bound matrix "A".  Init draws *)
(* the pattern and the value buffer; every action is one call, with its    *)
(* vector arguments drawn from Vectors, and leaves its arguments and       *)
(* results in src, dst, aux, ret and acc.                                  *)
(***************************************************************************)
Idle ==
  /\ op = "idle" /\ err = "none"
  /\ src = EmptyVec /\ dst = EmptyVec /\ aux = EmptyVec
  /\ ret = 0 /\ acc = NoAccess /\ tasks = << >>
  /\ arg = 0 /\ realloc = FALSE /\ stream = << >>

InitMul ==
  /\ \E P \in AllPatterns :
       /\ pats = [i \in {1} |-> P]
       /\ \E v \in MatrixValues(P) :
            mat = [x \in {"A"} |->
                     [cols |-> 1, alloc |-> TRUE, val |-> v,
                      max_len |-> Footprint(P)]]
  /\ Idle

A == mat["A"]
PA == pats[A.cols]

\* the sizes a caller passes: the logical row or column count
Sizes == {PA.rows, PA.cols}

Cuts == SUBSET (1 .. PA.sp_rows - 1)

\* constant vectors of size n: what a caller's output argument holds before
Fills(n) == {ConstVec(n, x) : x \in 0 .. MaxVal}

\* every index the call touched exists in the vector it was applied to
InRange(r, csize, rsize) ==
  /\ r.cidx \subseteq 0 .. csize - 1
  /\ r.ridx \subseteq 0 .. rsize - 1
  /\ ~r.overrun

\* The call returns: s and a are the vectors the caller passed, csize and
\* rsize the sizes of the column-indexed and the row-indexed operand, dsize
\* the size of the output vector.  A call that touched a vector outside its
\* storage has undefined behaviour: a checked access (Vector::operator())
\* stops it with ExcIndexRange, an unchecked one (a raw iterator) reads or
\* overwrites whatever lies there, and the output may hold anything.
Finish(name, r, s, a, csize, rsize, dsize) ==
  /\ op' = name
  /\ src' = s
  /\ aux' = a
  /\ acc' = [cidx |-> r.cidx, ridx |-> r.ridx, overrun |-> r.overrun]
  /\ ret' = r.result
  /\ IF r.err # "none" \/ InRange(r, csize, rsize)
     THEN err' = r.err /\ dst' = r.dst
     ELSE /\ err' \in {"none", "ExcIndexRange"}
          /\ dst' \in {r.dst} \cup Fills(dsize)
  /\ UNCHANGED <<pats, mat, tasks, arg, realloc, stream>>

\* dst (aux before the call) and src
Vmult ==
  /\ op = "idle"
  /\ \E ds \in Sizes, ss \in Sizes :
       \E d \in Fills(ds), s \in Vectors(ss), cuts \in Cuts :
         Finish("vmult", vmult(A, PA, d, s, cuts), s, d, ss, ds, ds)

VmultAdd ==
  /\ op = "idle"
  /\ \E ds \in Sizes, ss \in Sizes :
       \E d \in Fills(ds), s \in Vectors(ss), cuts \in Cuts :
         Finish("vmult_add", vmult_add(A, PA, d, s, cuts), s, d, ss, ds, ds)

TvmultCall ==
  /\ op = "idle"
  /\ \E ds \in Sizes, ss \in Sizes :
       \E d \in Fills(ds), s \in Vectors(ss) :
         Finish("Tvmult", Tvmult(A, PA, d, s), s, d, ds, ss, ds)

TvmultAdd ==
  /\ op = "idle"
  /\ \E ds \in Sizes, ss \in Sizes :
       \E d \in Fills(ds), s \in Vectors(ss) :
         Finish("Tvmult_add", Tvmult_add(A, PA, d, s), s, d, ds, ss, ds)

\* residual(dst, u, b): src holds u, aux holds b
Residual ==
  /\ op = "idle"
  /\ \E us \in Sizes, bs \in Sizes :
       \E d \in Fills(PA.rows), u \in Vectors(us), b \in Fills(bs) :
         Finish("residual", residual(A, PA, d, u, b), u, b, us, PA.rows, PA.rows)

\* matrix_scalar_product(u, v): src holds v, aux holds u
MatrixScalarProduct ==
  /\ op = "idle"
  /\ \E us \in Sizes, vs \in Sizes :
       \E u \in Vectors(us), v \in Vectors(vs) :
         Finish("matrix_scalar_product", matrix_scalar_product(A, PA, u, v),
                v, u, vs, us, 0)

Return ==
  /\ op # "idle"
  /\ op' = "idle" /\ err' = "none"
  /\ src' = EmptyVec /\ dst' = EmptyVec /\ aux' = EmptyVec
  /\ ret' = 0 /\ acc' = NoAccess /\ tasks' = << >>
  /\ arg' = 0 /\ realloc' = FALSE
  /\ UNCHANGED <<pats, mat, stream>>

NextMul ==
  \/ Vmult
  \/ VmultAdd
  \/ TvmultCall
  \/ TvmultAdd
  \/ Residual
  \/ MatrixScalarProduct
  \/ Return

SpecMul == InitMul /\ [][NextMul]_vars

(***************************************************************************)
(* The reference the arithmetic claims are stated against: the logical     *)
(* matrix A(i,j) of the bound pattern and value buffer, entry by entry.    *)
(***************************************************************************)
\* (A x)[i] over the logical columns
RowDot(i, x) ==
  SumTo(LAMBDA j : Entry(PA, A.val, i, j) * x[j], 0, PA.cols)

\* (A^T x)[j] over the logical rows
ColDot(j, x) ==
  SumTo(LAMBDA i : Entry(PA, A.val, i, j) * x[i], 0, PA.rows)

RowsPadded == PA.rows % PA.chunk_size # 0

ColsPadded == PA.cols % PA.chunk_size # 0

\* the chunk in the last chunk row and last chunk column is stored
CornerStored == sp_index(PA, PA.sp_rows - 1, PA.sp_cols - 1) # -1

\* C2: a vmult call with dst of size m and src of size n is accepted and
\* leaves dst[i] = sum_j A(i,j)*src[j] for every logical row i, whatever dst
\* held before the call (aux).
C2_VmultOverwrites ==
  (op = "vmult" /\ Size(aux) = PA.rows /\ Size(src) = PA.cols)
    => /\ err = "none"
       /\ DOMAIN dst = 0 .. PA.rows - 1
       /\ \A i \in 0 .. PA.rows - 1 : dst[i] = RowDot(i, src)

C2_Witness ==
  /\ op = "vmult" /\ err = "none"
  /\ RowsPadded /\ ColsPadded /\ CornerStored /\ PA.sp_rows > 1
  /\ \E i \in DOMAIN aux : aux[i] # 0 /\ dst[i] # aux[i]
  /\ \E i \in DOMAIN dst : dst[i] # 0

\* C5: vmult_add, residual and matrix_scalar_product, called with vectors of
\* exactly the logical sizes, touch the column-indexed vector only below
\* n_logical and the row-indexed vector only below m_logical, and never run
\* past the pattern's arrays.
C5_NoAccessOutsideVectors ==
  (op \in {"vmult_add", "residual", "matrix_scalar_product"} /\ err = "none")
    => /\ acc.cidx \subseteq 0 .. PA.cols - 1
       /\ acc.ridx \subseteq 0 .. PA.rows - 1
       /\ ~acc.overrun

C5_Witness ==
  /\ op = "residual" /\ err = "none"
  /\ RowsPadded /\ ColsPadded /\ CornerStored
  /\ PA.rows - 1 \in acc.ridx /\ PA.cols - 1 \in acc.cidx

\* C6 (as claimed): Tvmult and Tvmult_add accept dst.size() = n_logical with
\* src.size() = m_logical and report a dimension mismatch for any other sizes.
C6_TransposeSizeContract ==
  (op \in {"Tvmult", "Tvmult_add"})
    => ((Size(aux) = PA.cols /\ Size(src) = PA.rows)
          <=> err # "ExcDimensionMismatch")

\* C7 (as claimed): a Tvmult_add call that passes the function's own entry
\* checks leaves dst[j] = dst_old[j] + sum_i A(i,j)*src[i] for every logical
\* column j and indexes dst and src only inside their storage.
C7_TvmultAddResult ==
  (op = "Tvmult_add" /\ Size(aux) = PA.rows /\ Size(src) = PA.cols)
    => /\ err = "none"
       /\ acc.cidx \subseteq DOMAIN aux
       /\ acc.ridx \subseteq DOMAIN src
       /\ \A j \in 0 .. PA.cols - 1 :
            /\ j \in DOMAIN dst /\ j \in DOMAIN aux
            /\ dst[j] = aux[j] + SumTo(LAMBDA i : Entry(PA, A.val, i, j)
                                                    * Rd(src, i), 0, PA.rows)

\* C8: residual(dst, u, b) leaves dst[i] = b[i] - sum_j A(i,j)*u[j] for every
\* logical row i and returns the norm whose square is sum_i dst[i]^2; for
\* u = 0 this is dst = b and the norm of b.
C8_Residual ==
  (op = "residual" /\ Size(src) = PA.cols /\ Size(aux) = PA.rows)
    => /\ err = "none"
       /\ DOMAIN dst = 0 .. PA.rows - 1
       /\ \A i \in 0 .. PA.rows - 1 : dst[i] = aux[i] - RowDot(i, src)
       /\ ret = SumTo(LAMBDA i : (aux[i] - RowDot(i, src))
                                   * (aux[i] - RowDot(i, src)), 0, PA.rows)
       /\ (src = ConstVec(PA.cols, 0))
            => (dst = aux /\ ret = SumTo(LAMBDA i : aux[i] * aux[i], 0, PA.rows))

C8_Witness ==
  /\ op = "residual" /\ err = "none"
  /\ RowsPadded /\ ColsPadded /\ CornerStored
  /\ \E i \in DOMAIN dst : dst[i] # aux[i]
  /\ ret > 0

\* C9: matrix_scalar_product(u, v) equals the dot product of u with the
\* vector vmult produces from v, which is sum_{i,j} u[i]*A(i,j)*v[j].
C9_ScalarProductAgreesWithVmult ==
  (op = "matrix_scalar_product" /\ Size(aux) = PA.rows /\ Size(src) = PA.cols)
    => /\ err = "none"
       /\ ret = SumTo(LAMBDA i : aux[i] * RowDot(i, src), 0, PA.rows)
       /\ ret = SumTo(LAMBDA i :
                        aux[i] * vmult(A, PA, ConstVec(PA.rows, 0), src, {}).dst[i],
                      0, PA.rows)

C9_Witness ==
  /\ op = "matrix_scalar_product" /\ err = "none"
  /\ RowsPadded /\ ColsPadded /\ CornerStored
  /\ ret # 0

(***************************************************************************)
(* SpecPar: one vmult_add call whose subranges run as concurrent tasks.    *)
(* Fork is the call up to the dispatch of the tasks.  A task reads the     *)
(* destination elements it works on (TaskLoad: its snapshot of dst) and    *)
(* later writes them back with its contributions added (TaskStore); the    *)
(* loads and stores of different tasks interleave freely, so that two      *)
(* tasks working on one element would lose an update.  Join is the return  *)
(* of apply_to_subranges once every task is done.                          *)
(***************************************************************************)
\* the subrange that starts at chunk row b
SubrangeEnd(b, cuts) == SetMin({c \in cuts : c > b} \cup {PA.sp_rows})

Fork ==
  /\ op = "idle"
  /\ \E d \in Fills(PA.rows), s \in Vectors(PA.cols), cuts \in Cuts :
       /\ vmult_add_checks(A, PA, d, s) = "none"
       /\ src' = s
       /\ aux' = d
       /\ dst' = d
       /\ tasks' = [b \in {0} \cup cuts |->
                      [begin |-> b, end |-> SubrangeEnd(b, cuts), pc |-> "ready",
                       snap |-> EmptyVec, wr |-> {}, rd |-> {}]]
  /\ op' = "vmult_add:running"
  /\ UNCHANGED <<pats, mat, err, ret, acc, arg, realloc, stream>>

TaskLoad(t) ==
  /\ op = "vmult_add:running"
  /\ tasks[t].pc = "ready"
  /\ tasks' = [tasks EXCEPT ![t].pc = "loaded", ![t].snap = dst]
  /\ UNCHANGED <<pats, mat, op, err, src, dst, aux, ret, acc, arg, realloc, stream>>

TaskStore(t) ==
  /\ op = "vmult_add:running"
  /\ tasks[t].pc = "loaded"
  /\ LET r == vmult_add_on_subrange(PA, tasks[t].begin, tasks[t].end,
                                    A.val, src, tasks[t].snap)
     IN  /\ dst' = [i \in DOMAIN dst |-> IF i \in r.ridx THEN r.dst[i] ELSE dst[i]]
         /\ tasks' = [tasks EXCEPT ![t].pc = "done", ![t].wr = r.ridx,
                                   ![t].rd = r.cidx]
         /\ acc' = [cidx |-> acc.cidx \cup r.cidx, ridx |-> acc.ridx \cup r.ridx,
                    overrun |-> acc.overrun \/ r.overrun]
  /\ UNCHANGED <<pats, mat, op, err, src, aux, ret, arg, realloc, stream>>

Join ==
  /\ op = "vmult_add:running"
  /\ \A t \in DOMAIN tasks : tasks[t].pc = "done"
  /\ op' = "vmult_add"
  /\ UNCHANGED <<pats, mat, err, src, dst, aux, ret, acc, tasks, arg, realloc, stream>>

NextPar ==
  \/ Fork
  \/ \E t \in DOMAIN tasks : TaskLoad(t)
  \/ \E t \in DOMAIN tasks : TaskStore(t)
  \/ Join
  \/ Return

SpecPar == InitMul /\ [][NextPar]_vars

\* C3: whatever the split into subranges and the interleaving of the tasks,
\* the dst a vmult_add call returns is the dst of one vmult_add_on_subrange
\* call over all chunk rows, which is dst_old + A*src.
C3_ParallelEqualsSerial ==
  (op = "vmult_add")
    => /\ dst = vmult_add_on_subrange(PA, 0, PA.sp_rows, A.val, src, aux).dst
       /\ \A i \in 0 .. PA.rows - 1 : dst[i] = aux[i] + RowDot(i, src)

\* two tasks, each loaded before the other stored, each changed dst
C3_Witness ==
  /\ op = "vmult_add"
  /\ Cardinality(DOMAIN tasks) = 2
  /\ RowsPadded
  /\ \A t \in DOMAIN tasks :
       /\ tasks[t].snap = aux
       /\ \E i \in tasks[t].wr : dst[i] # aux[i]

\* C4: a task writes (and reads) dst only in
\* [begin_row*chunk_size, end_row*chunk_size), so no element of dst is
\* touched by two tasks.
C4_DisjointWrites ==
  \A t \in DOMAIN tasks :
    /\ tasks[t].wr \subseteq
         tasks[t].begin * PA.chunk_size .. tasks[t].end * PA.chunk_size - 1
    /\ \A u \in DOMAIN tasks \ {t} : tasks[t].wr \cap tasks[u].wr = {}

C4_Witness ==
  /\ Cardinality(DOMAIN tasks) = 2
  /\ RowsPadded /\ ColsPadded
  /\ \A t \in DOMAIN tasks : tasks[t].pc = "done" /\ tasks[t].wr # {}

(***************************************************************************)
(* Matrix storage: reinit, clear, operator=(double), operator=(Identity),  *)
(* set/add of one entry, add(factor, matrix), copy_from(matrix) and        *)
(* frobenius_norm, as functions from the matrix before the call to the     *)
(* outcome [m: the matrix after, err: the exception raised or "none"].     *)
(***************************************************************************)
\* internal::SparseMatrixImplementation::minimum_parallel_grain_size, declared
\* in sparse_matrix.h
minimum_parallel_grain_size == 1024

\* the pattern object a cols pointer refers to
PatOfObject(p) == pats[p]

\* realloc: the call replaced val by a newly allocated buffer
Done(M) == [m |-> M, err |-> "none", realloc |-> FALSE]

Raise(M, e) == [m |-> M, err |-> e, realloc |-> FALSE]

\* zero_subrange / std::memset: val[begin .. end-1] = 0
\* zero_subrange that stops one element before end
zero_subrange_short(begin, end, values) ==
  [k \in DOMAIN values |-> IF k >= begin /\ k < end - 1 THEN 0 ELSE values[k]]

zero_subrange(begin, end, values) ==
  [k \in DOMAIN values |-> IF k >= begin /\ k < end THEN 0 ELSE values[k]]

\* operator=(const double d) with d = 0.  On a pattern without rows the
\* grain size divides by m() = 0, which is undefined: the build either
\* traps or goes on with some grain size; nothing is written either way,
\* since matrix_size is 0 then.
assign_zero(M, P) ==
  IF M.cols = 0 THEN {Raise(M, "ExcNeedsSparsityPattern")}
  ELSE LET matrix_size ==
             n_nonzero_elements(P) * P.chunk_size * P.chunk_size
       IN  IF P.rows = 0
           THEN {Raise(M, "DivisionByZero"), Done(M)}
           ELSE LET grain_size ==
                      (minimum_parallel_grain_size * (matrix_size + P.rows))
                         \div P.rows
                IN  IF matrix_size > grain_size
                    THEN {Done([M EXCEPT !.val = zero_subrange(0, matrix_size, @)])}
                    ELSE IF matrix_size > 0
                    THEN {Done([M EXCEPT !.val = zero_subrange(0, matrix_size, @)])}
                    ELSE {Done(M)}

\* reinit that binds and sizes the buffer but leaves its old content
reinit_without_zero_fill(M, p, P) ==
  IF pattern_empty(P)
  THEN {Done([cols |-> p, alloc |-> FALSE, val |-> EmptyVec, max_len |-> 0])}
  ELSE LET N == n_nonzero_elements(P) * P.chunk_size * P.chunk_size
       IN  IF N > M.max_len \/ M.max_len = 0
           THEN {Done([cols |-> p, alloc |-> TRUE, val |-> ConstVec(N, 0),
                       max_len |-> N])}
           ELSE {Done([M EXCEPT !.cols = p])}

\* reinit that allocates a buffer of exactly the required length at each call
reinit_resizes_to_fit(M, p, P) ==
  IF pattern_empty(P)
  THEN {Done([cols |-> p, alloc |-> FALSE, val |-> EmptyVec, max_len |-> 0])}
  ELSE LET N == n_nonzero_elements(P) * P.chunk_size * P.chunk_size
       IN  {[m |-> [cols |-> p, alloc |-> TRUE, val |-> ConstVec(N, 0),
                    max_len |-> N],
             err |-> "none", realloc |-> TRUE]}

\* reinit that allocates only when the matrix has no buffer yet
reinit_keeps_buffer(M, p, P) ==
  IF pattern_empty(P)
  THEN {Done([cols |-> p, alloc |-> FALSE, val |-> EmptyVec, max_len |-> 0])}
  ELSE LET N == n_nonzero_elements(P) * P.chunk_size * P.chunk_size
       IN  IF ~M.alloc
           THEN {[m |-> [cols |-> p, alloc |-> TRUE, val |-> ConstVec(N, 0),
                         max_len |-> N],
                  err |-> "none", realloc |-> TRUE]}
           ELSE {Done([M EXCEPT !.cols = p,
                                !.val = [k \in DOMAIN M.val |-> 0]])}

\* reinit(const ChunkSparsityPattern &sparsity); p names the pattern object
reinit(M, p, P) ==
  IF pattern_empty(P)
  THEN {Done([cols |-> p, alloc |-> FALSE, val |-> EmptyVec, max_len |-> 0])}
  ELSE LET chunk_size == P.chunk_size
           N == n_nonzero_elements(P) * chunk_size * chunk_size
           bound == [M EXCEPT !.cols = p]
           grow == N > M.max_len \/ M.max_len = 0
           sized == IF grow
                    THEN [bound EXCEPT !.alloc = TRUE, !.val = ConstVec(N, 0),
                                       !.max_len = N]
                    ELSE bound
       IN  {[o EXCEPT !.realloc = grow] : o \in assign_zero(sized, P)}

\* clear that unbinds the pattern but keeps the buffer
clear_keeps_buffer(M) == {Done([M EXCEPT !.cols = 0])}

\* clear()
clear(M) == {Done(NullMatrix)}

\* empty(): true without a pattern, else what the pattern P says of itself
empty(M, P) == IF M.cols = 0 THEN TRUE ELSE pattern_empty(P)

\* set(i, j, value): the entry must be represented in the pattern
set(M, P, i, j, value) ==
  IF M.cols = 0 THEN Raise(M, "ExcNeedsSparsityPattern")
  ELSE IF compute_location(P, i, j) = -1 THEN Raise(M, "ExcInvalidIndex")
  ELSE Done([M EXCEPT !.val[compute_location(P, i, j)] = value])

\* add(i, j, value)
add_entry(M, P, i, j, value) ==
  IF M.cols = 0 THEN Raise(M, "ExcNeedsSparsityPattern")
  ELSE IF compute_location(P, i, j) = -1 THEN Raise(M, "ExcInvalidIndex")
  ELSE Done([M EXCEPT !.val[compute_location(P, i, j)] = @ + value])

RECURSIVE set_diagonal(_, _, _, _)
\* for (i = 0; i < n(); ++i) this->set(i, i, 1.), stopped by the first failure
set_diagonal(out, P, i, n) ==
  IF i >= n \/ out.err # "none" THEN out
  ELSE set_diagonal(set(out.m, P, i, i, 1), P, i + 1, n)

\* operator=(const IdentityMatrix &) that sets the diagonal and zeroes nothing
assign_identity_without_zero(M, P, k) ==
  IF M.cols = 0
  THEN {Raise(M, "NullDereference"), Raise(M, "ExcDimensionMismatch"),
        Raise(M, "ExcNeedsSparsityPattern")}
  ELSE IF P.rows # k \/ P.cols # k THEN {Raise(M, "ExcDimensionMismatch")}
  ELSE {set_diagonal(Done(M), P, 0, P.cols)}

\* operator=(const IdentityMatrix &id) with id.m() = id.n() = k.  Without a
\* pattern the first Assert reads through the null cols, which is undefined:
\* the build traps, or reads some row count and fails one of the Asserts on
\* the way; the matrix is not written in either case.
assign_identity(M, P, k) ==
  IF M.cols = 0
  THEN {Raise(M, "NullDereference"), Raise(M, "ExcDimensionMismatch"),
        Raise(M, "ExcNeedsSparsityPattern")}
  ELSE IF P.rows # k \/ P.cols # k THEN {Raise(M, "ExcDimensionMismatch")}
  ELSE {IF z.err # "none" THEN z ELSE set_diagonal(z, P, 0, P.cols) :
          z \in assign_zero(M, P)}

\* ChunkSparseMatrix(const ChunkSparsityPattern &c, const IdentityMatrix &id)
\* with c the pattern object p and id.m() = id.n() = k: the members start
\* null, then the two Asserts, reinit(c) and the loop over the diagonal
construct_identity(p, P, k) ==
  IF P.rows # k THEN {Raise(NullMatrix, "ExcDimensionMismatch")}
  ELSE IF P.cols # k THEN {Raise(NullMatrix, "ExcDimensionMismatch")}
  ELSE {IF z.err # "none" THEN z
        ELSE [set_diagonal(z, P, 0, P.cols) EXCEPT !.realloc = z.realloc] :
          z \in reinit(NullMatrix, p, P)}

\* add that accepts any matrix whose pattern has the structure of this one's
add_structural(M, P, factor, matrix) ==
  IF M.cols = 0 THEN Raise(M, "ExcNeedsSparsityPattern")
  ELSE IF ~M.alloc THEN Raise(M, "ExcNotInitialized")
  ELSE IF matrix.cols = 0 \/ P # PatOfObject(matrix.cols)
  THEN Raise(M, "ExcDifferentChunkSparsityPatterns")
  ELSE Done([M EXCEPT !.val =
               [k \in DOMAIN M.val |->
                  IF k < Footprint(P) THEN M.val[k] + factor * Rd(matrix.val, k)
                  ELSE M.val[k]]])

\* add that adds the other matrix's values unscaled
add_ignores_factor(M, P, factor, matrix) ==
  IF M.cols = 0 THEN Raise(M, "ExcNeedsSparsityPattern")
  ELSE IF ~M.alloc THEN Raise(M, "ExcNotInitialized")
  ELSE IF M.cols # matrix.cols THEN Raise(M, "ExcDifferentChunkSparsityPatterns")
  ELSE LET end_ptr == n_nonzero_elements(P) * P.chunk_size * P.chunk_size
       IN  Done([M EXCEPT !.val =
                   [k \in DOMAIN M.val |->
                      IF k < end_ptr THEN M.val[k] + Rd(matrix.val, k)
                      ELSE M.val[k]]])

\* add(const number factor, const ChunkSparseMatrix &matrix)
add(M, P, factor, matrix) ==
  IF M.cols = 0 THEN Raise(M, "ExcNeedsSparsityPattern")
  ELSE IF ~M.alloc THEN Raise(M, "ExcNotInitialized")
  ELSE IF M.cols # matrix.cols THEN Raise(M, "ExcDifferentChunkSparsityPatterns")
  ELSE LET end_ptr == n_nonzero_elements(P) * P.chunk_size * P.chunk_size
       IN  Done([M EXCEPT !.val =
                   [k \in DOMAIN M.val |->
                      IF k < end_ptr THEN M.val[k] + factor * Rd(matrix.val, k)
                      ELSE M.val[k]]])

\* copy_from that adds the other matrix's values to the ones held
copy_from_accumulates(M, P, matrix) ==
  IF M.cols = 0 THEN Raise(M, "ExcNeedsSparsityPattern")
  ELSE IF ~M.alloc THEN Raise(M, "ExcNotInitialized")
  ELSE IF M.cols # matrix.cols THEN Raise(M, "ExcDifferentChunkSparsityPatterns")
  ELSE LET end_ptr == n_nonzero_elements(P) * P.chunk_size * P.chunk_size
       IN  Done([M EXCEPT !.val =
                   [k \in DOMAIN M.val |->
                      IF k < end_ptr THEN M.val[k] + Rd(matrix.val, k)
                      ELSE M.val[k]]])

\* copy_from(const ChunkSparseMatrix &matrix)
copy_from(M, P, matrix) ==
  IF M.cols = 0 THEN Raise(M, "ExcNeedsSparsityPattern")
  ELSE IF ~M.alloc THEN Raise(M, "ExcNotInitialized")
  ELSE IF M.cols # matrix.cols THEN Raise(M, "ExcDifferentChunkSparsityPatterns")
  ELSE LET end_ptr == n_nonzero_elements(P) * P.chunk_size * P.chunk_size
       IN  Done([M EXCEPT !.val =
                   [k \in DOMAIN M.val |->
                      IF k < end_ptr THEN Rd(matrix.val, k) ELSE M.val[k]]])

\* operator= that copies the values of a matrix on the same pattern
assign_matrix_copies(M, m) ==
  IF M.cols = m.cols /\ M.max_len = m.max_len
  THEN Done([M EXCEPT !.val = m.val])
  ELSE Raise(M, "ExcMessage")

\* operator=(const ChunkSparseMatrix<number> &m): only an empty right hand
\* side is allowed, and nothing is copied
assign_matrix(M, m) ==
  IF m.cols = 0 /\ ~m.alloc /\ m.max_len = 0
  THEN Done(M)
  ELSE Raise(M, "ExcMessage")

\* frobenius_norm(), held as its square: norm_sqr summed from val to
\* val + max_len
frobenius_norm_sqr(M) ==
  SumTo(LAMBDA k : M.val[k] * M.val[k], 0, M.max_len)

(***************************************************************************)
(* Spec: the life of matrix "A", with operand matrix "B", over a fixed set  *)
(* of pattern objects.  Patterns 1 and 2 are two objects of one structure  *)
(* (3x3 in chunks of 2, chunks (0,0) and (1,1): padding in the last row    *)
(* and column), 3 is smaller (2x2, one chunk), 4 is an empty pattern and   *)
(* 5 has rows and columns but stores no chunk; 6 (3x4, chunks (1,0) and    *)
(* (1,1)) keeps entries where 1 and 2 keep padding.                        *)
(* op and err hold the last call and the exception it raised, ret the      *)
(* value it returned.                                                      *)
(***************************************************************************)
StoragePatterns ==
  << MakePattern(2, 3, 3, {<<0, 0>>, <<1, 1>>}),
     MakePattern(2, 3, 3, {<<0, 0>>, <<1, 1>>}),
     MakePattern(2, 2, 2, {<<0, 0>>}),
     EmptyPattern,
     MakePattern(2, 2, 4, {}),
     MakePattern(2, 3, 4, {<<1, 0>>, <<1, 1>>}) >>

Mats == {"A", "B"}

\* a matrix bound to pattern object p and filled through set()
Filled(p, v) ==
  [cols |-> p, alloc |-> TRUE, val |-> v, max_len |-> Footprint(StoragePatterns[p])]

Operands ==
  {NullMatrix}
    \cup UNION {{Filled(p, v) : v \in MatrixValues(StoragePatterns[p])} : p \in {1, 2, 3, 6}}
    \cup UNION {{o.m : o \in reinit(NullMatrix, p, StoragePatterns[p])} : p \in {4, 5}}

\* "A" starts default-constructed.  "B" is the operand of add and copy_from:
\* default-constructed, or bound to one of the patterns and filled
Init ==
  /\ pats = StoragePatterns
  /\ \E b \in Operands : mat = [x \in Mats |-> IF x = "A" THEN NullMatrix ELSE b]
  /\ Idle

\* the pattern a matrix points at (any pattern when it points at none: the
\* operations test cols before they use it)
PatOf(M) == IF M.cols = 0 THEN EmptyPattern ELSE pats[M.cols]

\* every value of the buffer stays within the modelled range
Bounded(M) == \A k \in DOMAIN M.val : M.val[k] >= 0 /\ M.val[k] <= MaxVal

\* the call name(a) on matrix x ends with outcome out, returning value r;
\* a is the pattern object or the dimension the caller passed, 0 if none
Outcome(name, x, out, r, a) ==
  /\ Bounded(out.m)
  /\ mat' = [mat EXCEPT ![x] = out.m]
  /\ op' = name
  /\ err' = out.err
  /\ ret' = r
  /\ arg' = a
  /\ realloc' = out.realloc
  /\ UNCHANGED <<pats, src, dst, aux, acc, tasks, stream>>

Reinit(x) ==
  \E p \in DOMAIN pats : \E out \in reinit(mat[x], p, pats[p]) :
    Outcome("reinit", x, out, 0, p)

Clear(x) ==
  \E out \in clear(mat[x]) : Outcome("clear", x, out, 0, 0)

AssignZero(x) ==
  \E out \in assign_zero(mat[x], PatOf(mat[x])) : Outcome("operator=(0)", x, out, 0, 0)

\* dimensions of the IdentityMatrix a caller passes
IdentitySizes == UNION {{pats[p].rows, pats[p].cols} : p \in DOMAIN pats}

AssignIdentity(x) ==
  \E k \in IdentitySizes :
    \E out \in assign_identity(mat[x], PatOf(mat[x]), k) :
      Outcome("operator=(IdentityMatrix)", x, out, 0, k)

SetEntry(x) ==
  \E i \in 0 .. PatOf(mat[x]).rows - 1, j \in 0 .. PatOf(mat[x]).cols - 1 :
    \E value \in 0 .. MaxVal :
      Outcome("set", x, set(mat[x], PatOf(mat[x]), i, j, value), 0, 0)

AddEntry(x) ==
  \E i \in 0 .. PatOf(mat[x]).rows - 1, j \in 0 .. PatOf(mat[x]).cols - 1 :
    \E value \in 1 .. MaxVal :
      Outcome("add(i,j)", x, add_entry(mat[x], PatOf(mat[x]), i, j, value), 0, 0)

\* add(factor, matrix): arg holds the factor
AddMatrix(x) ==
  \E y \in Mats \ {x}, factor \in -1 .. MaxVal :
    Outcome("add", x, add(mat[x], PatOf(mat[x]), factor, mat[y]), 0, factor)

CopyFrom(x) ==
  \E y \in Mats \ {x} :
    Outcome("copy_from", x, copy_from(mat[x], PatOf(mat[x]), mat[y]), 0, 0)

AssignMatrix(x) ==
  \E y \in Mats \ {x} :
    Outcome("operator=(matrix)", x, assign_matrix(mat[x], mat[y]), 0, 0)

FrobeniusNorm(x) ==
  Outcome("frobenius_norm", x, Done(mat[x]), frobenius_norm_sqr(mat[x]), 0)

\* n_actually_nonzero_elements that counts every stored element
n_actually_nonzero_elements_stored(M, P) ==
  IF M.cols = 0 THEN [err |-> "ExcNeedsSparsityPattern", result |-> 0]
  ELSE [err |-> "none", result |-> Footprint(P)]

\* ChunkSparseMatrix::n_actually_nonzero_elements: std::count_if over
\* val[0 .. n_nonzero_elements * chunk_size^2), padding included
n_actually_nonzero_elements(M, P) ==
  IF M.cols = 0 THEN [err |-> "ExcNeedsSparsityPattern", result |-> 0]
  ELSE [err |-> "none",
        result |-> Cardinality({k \in 0 .. Footprint(P) - 1 : M.val[k] # 0})]

Next ==
  \/ Reinit("A")
  \/ Clear("A")
  \/ AssignZero("A")
  \/ AssignIdentity("A")
  \/ SetEntry("A")
  \/ AddEntry("A")
  \/ AddMatrix("A")
  \/ CopyFrom("A")
  \/ AssignMatrix("A")
  \/ FrobeniusNorm("A")
  \* n_actually_nonzero_elements() const
  \/ LET r == n_actually_nonzero_elements(A, PatOf(A))
     IN  Outcome("n_actually_nonzero_elements", "A",
                 [m |-> A, err |-> r.err, realloc |-> FALSE], r.result, 0)

Spec == Init /\ [][Next]_vars

(***************************************************************************)
(* C1 -- padding invariant: in every state reached through reinit,         *)
(* operator=(0), operator=(IdentityMatrix), add(factor, other) and         *)
(* copy_from(other) (and set/add of logical entries), every position of    *)
(* val that lies inside a stored chunk of the bound pattern but beyond the *)
(* last logical row or column holds exactly 0.  The arithmetic operations  *)
(* are const and leave val alone (mat is unchanged in SpecMul and          *)
(* SpecPar).                                                               *)
(***************************************************************************)
PaddingZero(M) ==
  M.cols # 0 /\ M.alloc => \A k \in PaddingIdx(pats[M.cols]) : M.val[k] = 0

C1_PaddingInvariant == \A x \in DOMAIN mat : PaddingZero(mat[x])

\* add(factor, B) has returned on a pattern whose boundary chunks have
\* padding, and the matrix holds a nonzero entry
C1_Witness ==
  /\ op = "add" /\ err = "none"
  /\ mat["A"].cols # 0
  /\ PaddingIdx(pats[mat["A"].cols]) # {}
  /\ \E k \in LogicalIdx(pats[mat["A"].cols]) : mat["A"].val[k] # 0

(***************************************************************************)
(* C10 -- frobenius_norm() squared equals the sum of the squares of the    *)
(* entries stored under the currently bound pattern, in every state        *)
(* reached through reinit (re-binding to a pattern of smaller required     *)
(* length included), set/add of entries and zero-fill.                     *)
(***************************************************************************)
SumOfSquares(M, P) ==
  SumTo(LAMBDA i :
          SumTo(LAMBDA j : Entry(P, M.val, i, j) * Entry(P, M.val, i, j), 0, P.cols),
        0, P.rows)

C10_FrobeniusMatchesBoundMatrix ==
  op = "frobenius_norm" /\ mat["A"].cols # 0 =>
    ret = SumOfSquares(mat["A"], pats[mat["A"].cols])

(***************************************************************************)
(* block_write / block_read.  A stream is the sequence of what was written *)
(* to it: characters <<"c", ch>> from the formatted operator<< and, from   *)
(* out.write, one element <<"b", v>> per number of the buffer (its bytes). *)
(* The streams are taken to be in a good state (no ExcIO from fail()).     *)
(***************************************************************************)
Ch(c) == <<"c", c>>

Raw(v) == <<"b", v>>

DigitChar == <<"0", "1", "2", "3", "4", "5", "6", "7", "8", "9">>

IsCh(tok, c) == tok[1] = "c" /\ tok[2] = c

IsDigit(tok) == tok[1] = "c" /\ \E d \in 0 .. 9 : DigitChar[d + 1] = tok[2]

DigitValue(tok) == CHOOSE d \in 0 .. 9 : DigitChar[d + 1] = tok[2]

RECURSIVE Digits(_)
\* out << max_len: the decimal digits, most significant first
Digits(n) ==
  IF n < 10 THEN <<Ch(DigitChar[n + 1])>>
  ELSE Digits(n \div 10) \o <<Ch(DigitChar[(n % 10) + 1])>>

RECURSIVE ReadNat(_, _, _)
\* in >> max_len from position pos: digits are consumed while there are any
ReadNat(in, pos, value) ==
  IF pos <= Len(in) /\ IsDigit(in[pos])
  THEN ReadNat(in, pos + 1, 10 * value + DigitValue(in[pos]))
  ELSE [value |-> value, pos |-> pos]

\* block_write(std::ostream &out): the stream after the call
block_write(M, out) ==
  out \o <<Ch("[")>> \o Digits(M.max_len) \o <<Ch("]"), Ch("[")>>
      \o [i \in 1 .. M.max_len |-> Raw(M.val[i - 1])]
      \o <<Ch("]")>>

\* block_read that reads the numbers into the buffer the matrix has
block_read_keeps_buffer(M, in) ==
  LET n == ReadNat(in, 2, 0)
  IN  [m |-> [M EXCEPT !.val =
                [k \in DOMAIN M.val |->
                   IF k < n.value THEN in[n.pos + 2 + k][2] ELSE M.val[k]]],
       err |-> "none", realloc |-> FALSE,
       rest |-> SubSeq(in, n.pos + 3 + n.value, Len(in))]

\* block_read that allocates and fills the buffer but leaves max_len as it was
block_read_keeps_max_len(M, in) ==
  LET n == ReadNat(in, 2, 0)
  IN  [m |-> [M EXCEPT !.alloc = TRUE,
                       !.val = [k \in 0 .. n.value - 1 |-> in[n.pos + 2 + k][2]]],
       err |-> "none", realloc |-> TRUE,
       rest |-> SubSeq(in, n.pos + 3 + n.value, Len(in))]

\* block_read(std::istream &in): the outcome and what is left of the stream.
\* max_len is overwritten as soon as it is read, the buffer as soon as it is
\* allocated, so a later AssertThrow leaves the matrix with them.
block_read(M, in) ==
  LET n == ReadNat(in, 2, 0)
      sized == [M EXCEPT !.max_len = n.value]
      data_ok == /\ n.pos + 1 + n.value <= Len(in)
                 /\ \A k \in 1 .. n.value : in[n.pos + 1 + k][1] = "b"
      filled == [sized EXCEPT !.alloc = TRUE,
                   !.val = [k \in 0 .. n.value - 1 |->
                              IF data_ok THEN in[n.pos + 2 + k][2] ELSE 0]]
      fail(m, re) == [m |-> m, err |-> "ExcIO", realloc |-> re, rest |-> << >>]
  IN  IF Len(in) < 1 \/ ~IsCh(in[1], "[") THEN fail(M, FALSE)
      ELSE IF n.pos > Len(in) \/ ~IsCh(in[n.pos], "]") THEN fail(sized, FALSE)
      ELSE IF n.pos + 1 > Len(in) \/ ~IsCh(in[n.pos + 1], "[")
      THEN fail(sized, FALSE)
      ELSE IF ~data_ok \/ n.pos + 2 + n.value > Len(in)
                \/ ~IsCh(in[n.pos + 2 + n.value], "]")
      THEN fail(filled, TRUE)
      ELSE [m |-> filled, err |-> "none", realloc |-> TRUE,
            rest |-> SubSeq(in, n.pos + 3 + n.value, Len(in))]

(***************************************************************************)
(* SpecIO: matrix "A" in any bound state is written to a stream with       *)
(* block_write and the stream is read with block_read into matrix "B",     *)
(* which is bound to the pattern object "A" is bound to.                   *)
(***************************************************************************)
\* the pattern objects of Spec and a 4x4 pattern of three chunks, whose
\* required length (12) is written with two digits
IOPatterns ==
  StoragePatterns \o << MakePattern(2, 4, 4, {<<0, 0>>, <<0, 1>>, <<1, 1>>}) >>

\* bound matrices: freshly bound and filled, or bound again after that
Writers ==
  LET fresh == UNION {{[cols |-> p, alloc |-> TRUE, val |-> v,
                        max_len |-> Footprint(IOPatterns[p])] :
                          v \in MatrixValues(IOPatterns[p])} : p \in {1, 2, 3, 6, 7}}
  IN  fresh \cup UNION {UNION {{o.m : o \in reinit(w, q, IOPatterns[q])} :
                                 q \in DOMAIN IOPatterns} : w \in fresh}

\* matrices bound to pattern object p
Readers(p) == {b \in Writers : b.cols = p}

InitIO ==
  /\ pats = IOPatterns
  /\ \E a \in Writers : \E b \in Readers(a.cols) :
       mat = [x \in Mats |-> IF x = "A" THEN a ELSE b]
  /\ Idle

BlockWrite(x) ==
  /\ stream = << >>
  /\ stream' = block_write(mat[x], stream)
  /\ op' = "block_write" /\ err' = "none" /\ ret' = 0
  /\ arg' = 0 /\ realloc' = FALSE
  /\ UNCHANGED <<pats, mat, src, dst, aux, acc, tasks>>

BlockRead(x) ==
  /\ stream # << >>
  /\ LET out == block_read(mat[x], stream)
     IN  /\ mat' = [mat EXCEPT ![x] = out.m]
         /\ stream' = out.rest
         /\ op' = "block_read" /\ err' = out.err /\ ret' = 0
         /\ arg' = 0 /\ realloc' = out.realloc
  /\ UNCHANGED <<pats, src, dst, aux, acc, tasks>>

NextIO ==
  \/ BlockWrite("A")
  \/ BlockRead("B")

SpecIO == InitIO /\ [][NextIO]_vars

(***************************************************************************)
(* C14 -- serialization round trip: block_write of "A" followed by         *)
(* block_read of that stream into "B", bound to the identical pattern,     *)
(* leaves B.max_len = A.max_len and B.val = A.val element for element, and *)
(* neither call changes "A".                                               *)
(***************************************************************************)
C14_RoundTrip ==
  /\ [](op = "block_read" =>
          /\ err = "none"
          /\ mat["B"].max_len = mat["A"].max_len
          /\ mat["B"].val = mat["A"].val)
  /\ [][op' \in {"block_write", "block_read"} => mat'["A"] = mat["A"]]_vars

\* the stream of a matrix with a nonzero entry and a buffer of length 12,
\* longer than its pattern requires, was read into the other matrix
C14_Witness ==
  /\ op = "block_read" /\ err = "none" /\ realloc
  /\ mat["B"].max_len = 12
  /\ mat["B"].max_len > Footprint(pats[mat["B"].cols])
  /\ \E k \in DOMAIN mat["B"].val : mat["B"].val[k] # 0
  /\ stream = << >>

(***************************************************************************)
(* C11 (as claimed) -- immediately after reinit with a non-empty pattern   *)
(* every element of the allocated buffer, [0, max_len), is 0, the elements *)
(* beyond the new pattern's required length included.                      *)
(***************************************************************************)
BoundNonEmpty(M) == M.cols # 0 /\ ~pattern_empty(pats[M.cols])

C11_BindZeroFillsAllocation ==
  (op = "reinit" /\ err = "none" /\ BoundNonEmpty(mat["A"]))
    => \A k \in 0 .. mat["A"].max_len - 1 : mat["A"].val[k] = 0

(***************************************************************************)
(* C12 -- capacity under re-binding.  A reinit call with a non-empty       *)
(* pattern never lowers max_len, and allocates a new buffer only when the  *)
(* required length chunk_size^2 * n_nonzero_elements exceeds max_len or    *)
(* max_len is 0.                                                           *)
(***************************************************************************)
ReinitNonEmptyStep ==
  op' = "reinit" /\ arg' # 0 /\ ~pattern_empty(pats[arg'])

C12_CapacityMonotonic ==
  [][ReinitNonEmptyStep =>
       /\ mat'["A"].max_len >= mat["A"].max_len
       /\ realloc' => \/ Footprint(pats[arg']) > mat["A"].max_len
                      \/ mat["A"].max_len = 0]_vars

\* a bind to a pattern of smaller required length kept the longer buffer
C12_Witness ==
  /\ op = "reinit" /\ ~realloc
  /\ BoundNonEmpty(mat["A"])
  /\ mat["A"].max_len > Footprint(pats[mat["A"].cols])

\* C12 (as claimed): a new buffer is allocated only by a call whose required
\* length exceeds max_len, and max_len never decreases.
C12_ReallocOnlyOnGrowth ==
  [][ReinitNonEmptyStep =>
       /\ mat'["A"].max_len >= mat["A"].max_len
       /\ realloc' => Footprint(pats[arg']) > mat["A"].max_len]_vars

(***************************************************************************)
(* C13 -- the buffer and the bound pattern.  In every state reached        *)
(* through reinit, clear, operator=, set/add of entries, add and copy_from *)
(* in which the matrix is bound to a non-empty pattern, max_len is the     *)
(* length of val and at least chunk_size^2 * n_nonzero_elements of the     *)
(* bound pattern.                                                          *)
(***************************************************************************)
C13_BufferCoversFootprint ==
  BoundNonEmpty(mat["A"]) =>
    /\ mat["A"].alloc
    /\ DOMAIN mat["A"].val = 0 .. mat["A"].max_len - 1
    /\ mat["A"].max_len >= Footprint(pats[mat["A"].cols])

\* bound to a pattern of required length 4 with a buffer of length 8
C13_Witness ==
  /\ BoundNonEmpty(mat["A"])
  /\ Footprint(pats[mat["A"].cols]) = 4
  /\ mat["A"].max_len = 8

\* C13 (as claimed): max_len equals chunk_size^2 * n_nonzero_elements of the
\* bound pattern.
C13_BufferLengthEqualsFootprint ==
  BoundNonEmpty(mat["A"]) =>
    mat["A"].max_len = Footprint(pats[mat["A"].cols])

(***************************************************************************)
(* C15 -- pattern identity.  add(factor, other) and copy_from(other) end   *)
(* in a contract violation, with no value of either matrix changed, when   *)
(* other's cols is a different pattern object, a structurally identical    *)
(* one included; they are accepted when both point at the same pattern     *)
(* object and this matrix has a value buffer.                              *)
(***************************************************************************)
MatrixMatrixStep == op' \in {"add", "copy_from"}

C15_PatternIdentityRequired ==
  [][MatrixMatrixStep =>
       /\ mat["A"].cols # mat["B"].cols => err' # "none" /\ mat' = mat
       /\ mat["A"].cols = mat["B"].cols /\ mat["A"].alloc => err' = "none"]_vars

\* add was refused between two pattern objects of one structure
C15_Witness ==
  /\ op = "add" /\ err = "ExcDifferentChunkSparsityPatterns"
  /\ mat["A"].cols # 0 /\ mat["B"].cols # 0
  /\ mat["A"].cols # mat["B"].cols
  /\ pats[mat["A"].cols] = pats[mat["B"].cols]

\* C15 (as claimed): the calls are accepted whenever both matrices point at
\* the same pattern object.
C15_AcceptedOnSamePattern ==
  [][MatrixMatrixStep =>
       /\ mat["A"].cols # mat["B"].cols => err' # "none" /\ mat' = mat
       /\ mat["A"].cols = mat["B"].cols /\ mat["A"].cols # 0
            => err' = "none"]_vars

(***************************************************************************)
(* C16 -- operator=(const ChunkSparseMatrix &).  The call is accepted      *)
(* exactly when the right hand side is an empty matrix (no pattern, no     *)
(* buffer, max_len 0); any other right hand side, one bound to the         *)
(* identical pattern included, is a contract violation.  No value is       *)
(* copied in either case.                                                  *)
(***************************************************************************)
C16_AssignmentOnlyFromEmpty ==
  [][op' = "operator=(matrix)" =>
       /\ mat' = mat
       /\ err' = "none" <=> mat["B"] = NullMatrix]_vars

\* the assignment was refused between two matrices on one pattern object
C16_Witness ==
  /\ op = "operator=(matrix)" /\ err = "ExcMessage"
  /\ mat["A"].cols # 0 /\ mat["A"].alloc
  /\ mat["A"].cols = mat["B"].cols
  /\ mat["A"].val # mat["B"].val

\* C16 (as claimed): assignment between two matrices bound to the identical
\* pattern is permitted and leaves the destination's values, padding
\* included, equal to the source's.
C16_AssignmentWithSharedPattern ==
  (op = "operator=(matrix)" /\ mat["A"].cols # 0
     /\ mat["A"].cols = mat["B"].cols)
    => err = "none" /\ mat["A"].val = mat["B"].val

(***************************************************************************)
(* The norms that take no vector, and matrix_norm_square.                  *)
(***************************************************************************)
\* numbers::NumberTraits<number>::abs
abs(x) == IF x < 0 THEN 0 - x ELSE x

\* Vector::linfty_norm(): the largest absolute value of an element
vector_linfty_norm(v) ==
  CHOOSE x \in {abs(v[i]) : i \in DOMAIN v} \cup {0} :
    \A i \in DOMAIN v : abs(v[i]) <= x

\* ChunkSparseMatrix::matrix_norm_square: the entry checks, then the walk of
\* matrix_scalar_product with v in the place of u
matrix_norm_square(M, P, v) ==
  IF M.cols = 0 THEN Failed("ExcNeedsSparsityPattern", EmptyVec)
  ELSE IF ~M.alloc THEN Failed("ExcNotInitialized", EmptyVec)
  ELSE IF P.rows # Size(v) THEN Failed("ExcDimensionMismatch", EmptyVec)
  ELSE IF P.cols # Size(v) THEN Failed("ExcDimensionMismatch", EmptyVec)
  ELSE [err |-> "none"]
         @@ matrix_scalar_product_walk(P, M.val, [u |-> v, v |-> v],
                                       walk_entry(EmptyVec))

\* l1_norm that returns the largest absolute value of a stored element
l1_norm_largest_element(M, P) ==
  IF M.cols = 0 THEN Failed("ExcNeedsSparsityPattern", EmptyVec)
  ELSE IF ~M.alloc THEN Failed("ExcNotInitialized", EmptyVec)
  ELSE [err |-> "none",
        dst |-> [col \in 0 .. P.sp_cols * P.chunk_size - 1 |-> 0],
        result |-> vector_linfty_norm([k \in 0 .. Footprint(P) - 1 |-> M.val[k]])]
         @@ NoAccess

\* ChunkSparseMatrix::l1_norm: column_sums over every stored chunk, padding
\* included, then the largest of them.  dst is column_sums at the end of the
\* loops and cidx the indices at which the loops accessed it.
l1_norm(M, P) ==
  IF M.cols = 0 THEN Failed("ExcNeedsSparsityPattern", EmptyVec)
  ELSE IF ~M.alloc THEN Failed("ExcNotInitialized", EmptyVec)
  ELSE LET cs == P.chunk_size
           column_sums ==
             [col \in 0 .. P.sp_cols * cs - 1 |->
                SumTo(LAMBDA j :
                        IF P.colnums[j] * cs <= col /\ col < P.colnums[j] * cs + cs
                        THEN SumTo(LAMBDA r :
                                     abs(M.val[j * cs * cs + r * cs + (col % cs)]),
                                   0, cs)
                        ELSE 0,
                      0, n_nonzero_elements(P))]
       IN  [err |-> "none", dst |-> column_sums,
            result |-> vector_linfty_norm(column_sums),
            cidx |-> {P.colnums[j] * cs + s_ :
                        j \in 0 .. n_nonzero_elements(P) - 1, s_ \in 0 .. cs - 1},
            ridx |-> {}, overrun |-> FALSE]

\* ChunkSparseMatrix::linfty_norm: row_sums over every stored chunk, padding
\* included, then the largest of them
linfty_norm(M, P) ==
  IF M.cols = 0 THEN Failed("ExcNeedsSparsityPattern", EmptyVec)
  ELSE IF ~M.alloc THEN Failed("ExcNotInitialized", EmptyVec)
  ELSE LET cs == P.chunk_size
           row_sums ==
             [row \in 0 .. P.sp_rows * cs - 1 |->
                SumTo(LAMBDA j :
                        SumTo(LAMBDA s :
                                abs(M.val[j * cs * cs + (row % cs) * cs + s]),
                              0, cs),
                      P.rowstart[row \div cs], P.rowstart[row \div cs + 1])]
       IN  [err |-> "none", dst |-> EmptyVec,
            result |-> vector_linfty_norm(row_sums)] @@ NoAccess

\* ChunkSparseMatrix::frobenius_norm as a call: it checks nothing
frobenius_norm(M) ==
  [err |-> "none", dst |-> EmptyVec, result |-> frobenius_norm_sqr(M)] @@ NoAccess

(***************************************************************************)
(* SpecRed: the reductions called on a matrix in any storage state.  "A"   *)
(* starts default-constructed, bound to an empty pattern, or bound and     *)
(* filled; between two calls it may be rebound or cleared.  The vector     *)
(* arguments have the size of either dimension of the bound pattern, or    *)
(* size 2.                                                                 *)
(***************************************************************************)
InitRed ==
  /\ pats = StoragePatterns
  /\ \E m \in Operands : mat = [x \in {"A"} |-> m]
  /\ Idle

CallSizes == {PatOf(A).rows, PatOf(A).cols, 2}

\* one call of a reduction, or reinit or clear between two calls
NextRed ==
  \/ op = "idle" /\ Reinit("A")
  \/ op = "idle" /\ Clear("A")
  \* matrix_scalar_product(u, v): src holds v, aux holds u
  \/ /\ op = "idle"
     /\ \E us \in CallSizes, vs \in CallSizes :
          \E u \in Vectors(us), v \in Vectors(vs) :
            Finish("matrix_scalar_product",
                   matrix_scalar_product(A, PatOf(A), u, v), v, u, vs, us, 0)
  \/ /\ op = "idle"
     /\ \E vs \in CallSizes : \E v \in Vectors(vs) :
          Finish("matrix_norm_square", matrix_norm_square(A, PatOf(A), v),
                 v, EmptyVec, vs, vs, 0)
  \/ /\ op = "idle"
     \* the accumulator has n_chunk_cols * chunk_size elements
     /\ Finish("l1_norm", l1_norm(A, PatOf(A)), EmptyVec, EmptyVec,
               PatOf(A).sp_cols * PatOf(A).chunk_size, 0, 0)
  \/ /\ op = "idle"
     /\ Finish("linfty_norm", linfty_norm(A, PatOf(A)),
               EmptyVec, EmptyVec, 0, 0, 0)
  \/ /\ op = "idle"
     /\ Finish("frobenius_norm", frobenius_norm(A), EmptyVec, EmptyVec, 0, 0, 0)
  \* residual(dst, u, b): src holds u, aux holds b
  \/ /\ op = "idle"
     /\ \E ds \in CallSizes, us \in CallSizes, bs \in CallSizes :
          \E d \in Fills(ds), u \in Vectors(us), b \in Fills(bs) :
            Finish("residual", residual(A, PatOf(A), d, u, b), u, b, us, ds, ds)
  \/ Return

SpecRed == InitRed /\ [][NextRed]_vars

(***************************************************************************)
(* C17 -- reductions check their preconditions: a call of                  *)
(* matrix_scalar_product, matrix_norm_square, l1_norm, linfty_norm,        *)
(* frobenius_norm or residual on a matrix with no bound pattern or no      *)
(* allocated buffer ends in a contract violation, not in a value.          *)
(***************************************************************************)
Reductions ==
  {"matrix_scalar_product", "matrix_norm_square", "l1_norm", "linfty_norm",
   "frobenius_norm", "residual"}

Unusable(M) == M.cols = 0 \/ ~M.alloc

C17_ReductionsRejectUnusableMatrix ==
  (op \in Reductions /\ Unusable(A)) => err # "none"

\* the five reductions that do check: each of them rejects the matrix
C17_CheckedReductionsReject ==
  (op \in Reductions \ {"frobenius_norm"} /\ Unusable(A))
    => err \in {"ExcNeedsSparsityPattern", "ExcNotInitialized"}

\* frobenius_norm on an unusable matrix returns 0
C17_FrobeniusReturnsZero ==
  (op = "frobenius_norm" /\ Unusable(A)) => err = "none" /\ ret = 0

(***************************************************************************)
(* The relaxation members.  Each checks the matrix and the sizes of its    *)
(* arguments and then ends in DEAL_II_NOT_IMPLEMENTED(); om is the          *)
(* relaxation parameter, which none of them reads.                         *)
(***************************************************************************)
\* the three Asserts every relaxation member starts with
square_matrix_checks(M, P) ==
  IF M.cols = 0 THEN "ExcNeedsSparsityPattern"
  ELSE IF ~M.alloc THEN "ExcNotInitialized"
  ELSE IF P.rows # P.cols THEN "ExcMessage"
  ELSE "none"

precondition_Jacobi(M, P, dstv, srcv, om) ==
  IF square_matrix_checks(M, P) # "none"
  THEN Failed(square_matrix_checks(M, P), dstv)
  ELSE IF Size(dstv) # P.cols THEN Failed("ExcDimensionMismatch", dstv)
  ELSE IF Size(srcv) # P.cols THEN Failed("ExcDimensionMismatch", dstv)
  ELSE Failed("ExcNotImplemented", dstv)

precondition_SSOR(M, P, dstv, srcv, om) ==
  IF square_matrix_checks(M, P) # "none"
  THEN Failed(square_matrix_checks(M, P), dstv)
  ELSE IF Size(dstv) # P.cols THEN Failed("ExcDimensionMismatch", dstv)
  ELSE IF Size(srcv) # P.cols THEN Failed("ExcDimensionMismatch", dstv)
  ELSE Failed("ExcNotImplemented", dstv)

SOR(M, P, dstv, om) ==
  IF square_matrix_checks(M, P) # "none"
  THEN Failed(square_matrix_checks(M, P), dstv)
  ELSE IF P.rows # Size(dstv) THEN Failed("ExcDimensionMismatch", dstv)
  ELSE Failed("ExcNotImplemented", dstv)

TSOR(M, P, dstv, om) ==
  IF square_matrix_checks(M, P) # "none"
  THEN Failed(square_matrix_checks(M, P), dstv)
  ELSE IF P.rows # Size(dstv) THEN Failed("ExcDimensionMismatch", dstv)
  ELSE Failed("ExcNotImplemented", dstv)

SSOR(M, P, dstv, om) ==
  IF square_matrix_checks(M, P) # "none"
  THEN Failed(square_matrix_checks(M, P), dstv)
  ELSE IF P.rows # Size(dstv) THEN Failed("ExcDimensionMismatch", dstv)
  ELSE Failed("ExcNotImplemented", dstv)

\* mutant of precondition_SOR: dst = src and nothing more
precondition_SOR_copies_only(M, P, dstv, srcv, om) ==
  IF square_matrix_checks(M, P) # "none"
  THEN Failed(square_matrix_checks(M, P), dstv)
  ELSE [err |-> "none", dst |-> srcv, result |-> 0] @@ NoAccess

\* precondition_SOR: the checks, dst = src, SOR(dst, om)
precondition_SOR(M, P, dstv, srcv, om) ==
  IF square_matrix_checks(M, P) # "none"
  THEN Failed(square_matrix_checks(M, P), dstv)
  ELSE SOR(M, P, srcv, om)

\* precondition_TSOR: the checks, dst = src, TSOR(dst, om)
precondition_TSOR(M, P, dstv, srcv, om) ==
  IF square_matrix_checks(M, P) # "none"
  THEN Failed(square_matrix_checks(M, P), dstv)
  ELSE TSOR(M, P, srcv, om)

PSOR(M, P, dstv, permutation, inverse_permutation, om) ==
  IF square_matrix_checks(M, P) # "none"
  THEN Failed(square_matrix_checks(M, P), dstv)
  ELSE IF P.rows # Size(dstv) THEN Failed("ExcDimensionMismatch", dstv)
  ELSE IF P.rows # Size(permutation) THEN Failed("ExcDimensionMismatch", dstv)
  ELSE IF P.rows # Size(inverse_permutation)
       THEN Failed("ExcDimensionMismatch", dstv)
  ELSE Failed("ExcNotImplemented", dstv)

TPSOR(M, P, dstv, permutation, inverse_permutation, om) ==
  IF square_matrix_checks(M, P) # "none"
  THEN Failed(square_matrix_checks(M, P), dstv)
  ELSE IF P.rows # Size(dstv) THEN Failed("ExcDimensionMismatch", dstv)
  ELSE IF P.rows # Size(permutation) THEN Failed("ExcDimensionMismatch", dstv)
  ELSE IF P.rows # Size(inverse_permutation)
       THEN Failed("ExcDimensionMismatch", dstv)
  ELSE Failed("ExcNotImplemented", dstv)

SOR_step(M, P, v, b, om) ==
  IF square_matrix_checks(M, P) # "none"
  THEN Failed(square_matrix_checks(M, P), v)
  ELSE IF P.rows # Size(v) THEN Failed("ExcDimensionMismatch", v)
  ELSE IF P.rows # Size(b) THEN Failed("ExcDimensionMismatch", v)
  ELSE Failed("ExcNotImplemented", v)

TSOR_step(M, P, v, b, om) ==
  IF square_matrix_checks(M, P) # "none"
  THEN Failed(square_matrix_checks(M, P), v)
  ELSE IF P.rows # Size(v) THEN Failed("ExcDimensionMismatch", v)
  ELSE IF P.rows # Size(b) THEN Failed("ExcDimensionMismatch", v)
  ELSE Failed("ExcNotImplemented", v)

\* SSOR_step: SOR_step(v, b, om), then TSOR_step(v, b, om) if that returned
SSOR_step(M, P, v, b, om) ==
  LET first == SOR_step(M, P, v, b, om)
  IN  IF first.err # "none" THEN first
      ELSE TSOR_step(M, P, first.dst, b, om)

(***************************************************************************)
(* SpecRelax: the relaxation members called on a matrix in any storage     *)
(* state, as in SpecRed.  src and aux hold the arguments after the first   *)
(* (src and b; permutation and inverse_permutation), arg the size of the   *)
(* first argument (dst or v) before the call, dst that argument after it.  *)
(***************************************************************************)
\* index vectors of size n: the identity and the reversal
IndexVectors(n) ==
  {[i \in 0 .. n - 1 |-> i], [i \in 0 .. n - 1 |-> n - 1 - i]}

FinishRelax(name, r, dsize, s, a) ==
  /\ op' = name
  /\ err' = r.err
  /\ dst' = r.dst
  /\ src' = s
  /\ aux' = a
  /\ arg' = dsize
  /\ UNCHANGED <<pats, mat, ret, acc, tasks, realloc, stream>>

\* one call of a relaxation member with vectors of any of the sizes and
\* any relaxation parameter om, or reinit or clear between two calls
NextRelax ==
  \/ op = "idle" /\ Reinit("A")
  \/ op = "idle" /\ Clear("A")
  \/ /\ op = "idle"
     /\ \E ds \in CallSizes, ss \in CallSizes, om \in 0 .. MaxVal :
          \E d \in Fills(ds), s \in Vectors(ss) :
            FinishRelax("precondition_Jacobi", precondition_Jacobi(A, PatOf(A), d, s, om),
                        ds, s, EmptyVec)
  \/ /\ op = "idle"
     /\ \E ds \in CallSizes, ss \in CallSizes, om \in 0 .. MaxVal :
          \E d \in Fills(ds), s \in Vectors(ss) :
            FinishRelax("precondition_SSOR", precondition_SSOR(A, PatOf(A), d, s, om),
                        ds, s, EmptyVec)
  \/ /\ op = "idle"
     /\ \E ds \in CallSizes, ss \in CallSizes, om \in 0 .. MaxVal :
          \E d \in Fills(ds), s \in Vectors(ss) :
            FinishRelax("precondition_SOR", precondition_SOR(A, PatOf(A), d, s, om),
                        ds, s, EmptyVec)
  \/ /\ op = "idle"
     /\ \E ds \in CallSizes, ss \in CallSizes, om \in 0 .. MaxVal :
          \E d \in Fills(ds), s \in Vectors(ss) :
            FinishRelax("precondition_TSOR", precondition_TSOR(A, PatOf(A), d, s, om),
                        ds, s, EmptyVec)
  \/ /\ op = "idle"
     /\ \E ds \in CallSizes, om \in 0 .. MaxVal : \E d \in Vectors(ds) :
          FinishRelax("SOR", SOR(A, PatOf(A), d, om), ds, EmptyVec, EmptyVec)
  \/ /\ op = "idle"
     /\ \E ds \in CallSizes, om \in 0 .. MaxVal : \E d \in Vectors(ds) :
          FinishRelax("TSOR", TSOR(A, PatOf(A), d, om), ds, EmptyVec, EmptyVec)
  \/ /\ op = "idle"
     /\ \E ds \in CallSizes, om \in 0 .. MaxVal : \E d \in Vectors(ds) :
          FinishRelax("SSOR", SSOR(A, PatOf(A), d, om), ds, EmptyVec, EmptyVec)
  \/ /\ op = "idle"
     /\ \E ds \in CallSizes, ps \in CallSizes, qs \in CallSizes,
           om \in 0 .. MaxVal :
          \E d \in Fills(ds), p \in IndexVectors(ps), q \in IndexVectors(qs) :
            FinishRelax("PSOR", PSOR(A, PatOf(A), d, p, q, om), ds, p, q)
  \/ /\ op = "idle"
     /\ \E ds \in CallSizes, ps \in CallSizes, qs \in CallSizes,
           om \in 0 .. MaxVal :
          \E d \in Fills(ds), p \in IndexVectors(ps), q \in IndexVectors(qs) :
            FinishRelax("TPSOR", TPSOR(A, PatOf(A), d, p, q, om), ds, p, q)
  \/ /\ op = "idle"
     /\ \E ds \in CallSizes, ss \in CallSizes, om \in 0 .. MaxVal :
          \E v \in Fills(ds), b \in Vectors(ss) :
            FinishRelax("SOR_step", SOR_step(A, PatOf(A), v, b, om),
                        ds, b, EmptyVec)
  \/ /\ op = "idle"
     /\ \E ds \in CallSizes, ss \in CallSizes, om \in 0 .. MaxVal :
          \E v \in Fills(ds), b \in Vectors(ss) :
            FinishRelax("TSOR_step", TSOR_step(A, PatOf(A), v, b, om),
                        ds, b, EmptyVec)
  \/ /\ op = "idle"
     /\ \E ds \in CallSizes, ss \in CallSizes, om \in 0 .. MaxVal :
          \E v \in Fills(ds), b \in Vectors(ss) :
            FinishRelax("SSOR_step", SSOR_step(A, PatOf(A), v, b, om),
                        ds, b, EmptyVec)
  \/ Return

SpecRelax == InitRed /\ [][NextRelax]_vars

(***************************************************************************)
(* C18 -- unimplemented relaxation operations always fail: a call of       *)
(* precondition_Jacobi, precondition_SSOR, precondition_SOR,               *)
(* precondition_TSOR, SOR, TSOR, SSOR, PSOR, TPSOR, SOR_step, TSOR_step or *)
(* SSOR_step on a bound square matrix, every argument of the matrix's      *)
(* size, ends in ExcNotImplemented whatever the arguments hold.            *)
(***************************************************************************)
TwoVectorRelaxations ==
  {"precondition_Jacobi", "precondition_SSOR", "precondition_SOR",
   "precondition_TSOR", "SOR_step", "TSOR_step", "SSOR_step"}

OneVectorRelaxations == {"SOR", "TSOR", "SSOR"}

PermutedRelaxations == {"PSOR", "TPSOR"}

\* the last call was a relaxation member on a bound square matrix and
\* every argument had the matrix's size
RelaxationCallInContract ==
  /\ ~Unusable(A)
  /\ PatOf(A).rows = PatOf(A).cols
  /\ arg = PatOf(A).rows
  /\ \/ op \in OneVectorRelaxations
     \/ op \in TwoVectorRelaxations /\ Size(src) = PatOf(A).rows
     \/ /\ op \in PermutedRelaxations
        /\ Size(src) = PatOf(A).rows
        /\ Size(aux) = PatOf(A).rows

C18_RelaxationsNotImplemented ==
  RelaxationCallInContract => err = "ExcNotImplemented"

\* precondition_SOR called within its contract with a src that is not zero:
\* dst has taken the value of src and the call has ended in the failure
C18_Witness ==
  /\ RelaxationCallInContract
  /\ op = "precondition_SOR"
  /\ err = "ExcNotImplemented"
  /\ \E i \in DOMAIN src : src[i] # 0
  /\ dst = src

(***************************************************************************)
(* C19 -- empty states hold no storage: after construction, after clear()  *)
(* and after reinit with an empty pattern, from any state, the matrix has  *)
(* capacity 0 and no value buffer and empty() is true; after clear() no    *)
(* pattern is bound, after reinit with an empty pattern that pattern is.   *)
(***************************************************************************)
HoldsNoStorage(M) ==
  /\ M.max_len = 0
  /\ ~M.alloc
  /\ M.val = EmptyVec
  /\ empty(M, PatOf(M))

\* the last call was reinit with an empty pattern
ReinitEmptyDone == op = "reinit" /\ pattern_empty(pats[arg])

C19_EmptyStatesHoldNoStorage ==
  /\ op = "idle" => HoldsNoStorage(mat["A"]) /\ mat["A"].cols = 0
  /\ op = "clear" =>
       err = "none" /\ HoldsNoStorage(mat["A"]) /\ mat["A"].cols = 0
  /\ ReinitEmptyDone =>
       err = "none" /\ HoldsNoStorage(mat["A"]) /\ mat["A"].cols = arg

\* reinit with the empty pattern object has left it bound, without storage
C19_Witness ==
  /\ ReinitEmptyDone
  /\ mat["A"].cols = arg
  /\ HoldsNoStorage(mat["A"])

(***************************************************************************)
(* SpecId: binding against an IdentityMatrix.  There is one pattern       *)
(* object, of any structure within the bounds or empty; "A" starts         *)
(* default-constructed or bound to it and filled.  "A" is constructed anew *)
(* from (pattern, identity), assigned an identity, rebound or cleared.     *)
(* arg holds the dimension of the IdentityMatrix passed.                   *)
(***************************************************************************)
InitId ==
  /\ \E P \in AllPatterns \cup {EmptyPattern} :
       /\ pats = [i \in {1} |-> P]
       /\ \E m \in {NullMatrix} \cup
                   {[cols |-> 1, alloc |-> TRUE, val |-> v,
                     max_len |-> Footprint(P)] : v \in MatrixValues(P)} :
            /\ pattern_empty(P) => m = NullMatrix
            /\ mat = [x \in {"A"} |-> m]
  /\ Idle

\* the constructor makes a new object, whatever "A" was before
NextId ==
  \/ \E p \in DOMAIN pats, k \in IdentitySizes :
       \E out \in construct_identity(p, pats[p], k) :
         Outcome("ChunkSparseMatrix(pattern,IdentityMatrix)", "A", out, 0, k)
  \/ AssignIdentity("A")
  \/ Reinit("A")
  \/ Clear("A")

SpecId == InitId /\ [][NextId]_vars

(***************************************************************************)
(* C20 -- identity binding: the constructor from (pattern, identity) and   *)
(* operator=(IdentityMatrix) end in ExcDimensionMismatch unless the        *)
(* pattern's row and column counts both equal the identity's dimension;    *)
(* when they succeed, every diagonal entry (i,i) is stored and equals 1    *)
(* and every other position of the pattern's value extent, padding         *)
(* included, equals 0.                                                     *)
(***************************************************************************)
DiagonalIdx(P) == {compute_location(P, i, i) : i \in 0 .. P.cols - 1}

IsIdentity(M, P) ==
  /\ -1 \notin DiagonalIdx(P)
  /\ \A k \in 0 .. Footprint(P) - 1 :
       M.val[k] = IF k \in DiagonalIdx(P) THEN 1 ELSE 0

DimensionsMatch(P, k) == P.rows = k /\ P.cols = k

C20_IdentityBinding ==
  /\ op = "ChunkSparseMatrix(pattern,IdentityMatrix)" =>
       /\ ~DimensionsMatch(pats[1], arg) =>
            err = "ExcDimensionMismatch" /\ A = NullMatrix
       /\ err = "none" =>
            /\ DimensionsMatch(pats[1], arg)
            /\ A.cols = 1
            /\ A.max_len = Footprint(pats[1])
            /\ IsIdentity(A, pats[1])
  /\ (op = "operator=(IdentityMatrix)" /\ A.cols # 0) =>
       /\ ~DimensionsMatch(PatOf(A), arg) => err = "ExcDimensionMismatch"
       /\ err = "none" =>
            DimensionsMatch(PatOf(A), arg) /\ IsIdentity(A, PatOf(A))

\* an identity assigned under a pattern with padding in its last chunk row
\* and column
C20_Witness ==
  /\ op = "operator=(IdentityMatrix)"
  /\ err = "none"
  /\ A.cols # 0
  /\ arg = 3
  /\ PaddingIdx(PatOf(A)) # {}
  /\ IsIdentity(A, PatOf(A))

(***************************************************************************)
(* C21 -- scale-add: add(factor, other) with other bound to the pattern    *)
(* object this matrix is bound to leaves values[k] = old values[k] +       *)
(* factor * other.values[k] for every k below chunk_size^2 times the       *)
(* number of stored chunks, and changes neither other nor either capacity  *)
(* nor the bound pattern.                                                  *)
(***************************************************************************)
SharedPattern == mat["A"].cols # 0 /\ mat["A"].cols = mat["B"].cols

C21_ScaleAdd ==
  [][(op' = "add" /\ SharedPattern) =>
       /\ \A k \in 0 .. Footprint(PatOf(mat["A"])) - 1 :
            mat'["A"].val[k] = mat["A"].val[k] + arg' * mat["B"].val[k]
       /\ mat'["B"] = mat["B"]
       /\ mat'["A"].max_len = mat["A"].max_len
       /\ mat'["A"].cols = mat["A"].cols
       /\ pats' = pats]_vars

\* an add with factor 1 has raised an entry, another entry held its value
C21_Witness ==
  /\ op = "add" /\ err = "none" /\ arg = 1
  /\ SharedPattern
  /\ \E k \in 0 .. Footprint(PatOf(mat["A"])) - 1 :
       mat["B"].val[k] = 1 /\ mat["A"].val[k] = 1
  /\ \E k \in 0 .. Footprint(PatOf(mat["A"])) - 1 :
       mat["B"].val[k] = 0 /\ mat["A"].val[k] = 1

(***************************************************************************)
(* C22 -- copy_from(other) with other bound to the pattern object this     *)
(* matrix is bound to leaves values[k] = other.values[k] for every k below *)
(* chunk_size^2 times the number of stored chunks, padding included, and   *)
(* leaves other unchanged; a second copy_from(other) changes nothing.      *)
(***************************************************************************)
C22_CopyFrom ==
  [][(op' = "copy_from" /\ SharedPattern) =>
       /\ \A k \in 0 .. Footprint(PatOf(mat["A"])) - 1 :
            mat'["A"].val[k] = mat["B"].val[k]
       /\ mat'["B"] = mat["B"]
       /\ op = "copy_from" => mat' = mat]_vars

\* after a copy under a pattern with padding: the values are other's, among
\* them a non-zero one and a zero logical entry
C22_Witness ==
  /\ op = "copy_from" /\ err = "none"
  /\ SharedPattern
  /\ PaddingIdx(PatOf(mat["A"])) # {}
  /\ \A k \in 0 .. Footprint(PatOf(mat["A"])) - 1 :
       mat["A"].val[k] = mat["B"].val[k]
  /\ \E k \in 0 .. Footprint(PatOf(mat["A"])) - 1 : mat["B"].val[k] # 0
  /\ \E k \in LogicalIdx(PatOf(mat["A"])) : mat["B"].val[k] = 0

(***************************************************************************)
(* SpecSub: vmult_add_on_subrange called on one chunk-row subrange         *)
(* [begin_row, end_row) of a bound matrix, with any pattern within the     *)
(* bounds.  tasks holds the subrange and the cursors colnum_ptr and        *)
(* val_ptr (as offsets from colnums and values) at the closing Asserts.    *)
(***************************************************************************)
NextSub ==
  \/ /\ op = "idle"
     /\ \E begin_row \in 0 .. PA.sp_rows :
          \E end_row \in begin_row .. PA.sp_rows :
            \E d \in Fills(PA.rows), s \in Vectors(PA.cols) :
              LET r == vmult_add_on_subrange(PA, begin_row, end_row, A.val, s, d)
              IN  /\ op' = "vmult_add_on_subrange"
                  /\ src' = s
                  /\ aux' = d
                  /\ dst' = r.dst
                  /\ acc' = [cidx |-> r.cidx, ridx |-> r.ridx,
                             overrun |-> r.overrun]
                  /\ tasks' = [t \in {begin_row} |->
                                 [begin |-> begin_row, end |-> end_row,
                                  colnum_ptr |-> r.colnum_ptr,
                                  val_ptr |-> r.val_ptr]]
                  /\ UNCHANGED <<pats, mat, err, ret, arg, realloc, stream>>
  \/ Return

SpecSub == InitMul /\ [][NextSub]_vars

(***************************************************************************)
(* C23 -- traversal cursor postcondition: for every chunk-row subrange     *)
(* [begin_row, end_row) with 0 <= begin_row <= end_row <= n_chunk_rows and *)
(* every padding combination, vmult_add_on_subrange ends with colnum_ptr   *)
(* at rowstart[end_row] and val_ptr at rowstart[end_row] * chunk_size^2,   *)
(* having walked off neither end of the row range.                         *)
(***************************************************************************)
C23_CursorPostcondition ==
  op = "vmult_add_on_subrange" =>
    /\ ~acc.overrun
    /\ \A t \in DOMAIN tasks :
         /\ tasks[t].colnum_ptr = PA.rowstart[tasks[t].end]
         /\ tasks[t].val_ptr =
              PA.rowstart[tasks[t].end] * PA.chunk_size * PA.chunk_size

\* a subrange that starts after the first chunk row and ends with the
\* partly filled last one, which stores a chunk in the padded column
C23_Witness ==
  /\ op = "vmult_add_on_subrange"
  /\ RowsPadded /\ ColsPadded /\ CornerStored
  /\ \E t \in DOMAIN tasks :
       /\ tasks[t].begin > 0
       /\ tasks[t].end = PA.sp_rows
       /\ tasks[t].colnum_ptr > PA.rowstart[tasks[t].begin]

(***************************************************************************)
(* SpecZero: operator=(0.) down to its zeroing tasks.  The parallel path   *)
(* is taken when matrix_size > grain_size, which with                      *)
(* minimum_parallel_grain_size = 1024 needs more than 1024 rows:           *)
(* LargePattern is LargeRows x LargeRows in chunks of 2 with the diagonal  *)
(* chunks stored.  "A" is bound to it, or to one of the small patterns of  *)
(* StoragePatterns, and filled.  On the parallel path apply_to_subranges   *)
(* cuts [0, matrix_size) at any subset of ZeroCuts and the tasks run       *)
(* zero_subrange on their subranges in any order.                          *)
(***************************************************************************)
LargePattern ==
  LET R == CeilDiv(LargeRows, 2)
  IN  [chunk_size |-> 2, rows |-> LargeRows, cols |-> LargeRows,
       sp_rows |-> R, sp_cols |-> R,
       rowstart |-> [r \in 0 .. R |-> r],
       colnums |-> [k \in 0 .. R - 1 |-> k]]

\* matrix_size > grain_size in operator=(const double)
zero_in_parallel(P) ==
  LET matrix_size == n_nonzero_elements(P) * P.chunk_size * P.chunk_size
      grain_size == (minimum_parallel_grain_size * (matrix_size + P.rows))
                      \div P.rows
  IN  matrix_size > grain_size

\* places where the scheduler may split [0, matrix_size): after the first
\* element, in the middle, and before and inside the last chunk
ZeroCuts(P) ==
  {c \in {1, Footprint(P) \div 2, Footprint(P) - 4, Footprint(P) - 1} :
     c > 0 /\ c < Footprint(P)}

InitZero ==
  /\ \/ /\ pats = [i \in {1} |-> LargePattern]
        /\ \E x \in 0 .. MaxVal :
             mat = [m \in {"A"} |->
                      [cols |-> 1, alloc |-> TRUE,
                       max_len |-> Footprint(LargePattern),
                       \* the last chunk holds one logical entry
                       val |-> [k \in 0 .. Footprint(LargePattern) - 1 |->
                                  IF k <= Footprint(LargePattern) - 4
                                  THEN x ELSE 0]]]
     \/ \E p \in {1, 3, 6} :
          /\ pats = [i \in {1} |-> StoragePatterns[p]]
          /\ \E v \in MatrixValues(StoragePatterns[p]) :
               mat = [m \in {"A"} |->
                        [cols |-> 1, alloc |-> TRUE, val |-> v,
                         max_len |-> Footprint(StoragePatterns[p])]]
  /\ Idle

NextZero ==
  \* the memset path is one step
  \/ op = "idle" /\ ~zero_in_parallel(PA) /\ AssignZero("A")
  \* the parallel path: apply_to_subranges hands out the subranges
  \/ /\ op = "idle"
     /\ zero_in_parallel(PA)
     /\ \E cuts \in SUBSET ZeroCuts(PA) :
          tasks' = [b \in {0} \cup cuts |->
                      [begin |-> b,
                       end |-> SetMin({c \in cuts : c > b} \cup {Footprint(PA)}),
                       pc |-> "ready"]]
     /\ op' = "operator=(0):running"
     /\ UNCHANGED <<pats, mat, err, src, dst, aux, ret, acc, arg, realloc, stream>>
  \* one task: zero_subrange(begin, end, val.get())
  \/ /\ op = "operator=(0):running"
     /\ \E t \in DOMAIN tasks :
          /\ tasks[t].pc = "ready"
          /\ mat' = [mat EXCEPT !["A"].val =
                       zero_subrange(tasks[t].begin, tasks[t].end, @)]
          /\ tasks' = [tasks EXCEPT ![t].pc = "done"]
     /\ UNCHANGED <<pats, op, err, src, dst, aux, ret, acc, arg, realloc, stream>>
  \* apply_to_subranges returns when every task has run
  \/ /\ op = "operator=(0):running"
     /\ \A t \in DOMAIN tasks : tasks[t].pc = "done"
     /\ op' = "operator=(0)"
     /\ UNCHANGED <<pats, mat, err, src, dst, aux, ret, acc, tasks, arg,
                    realloc, stream>>
  \/ Return

SpecZero == InitZero /\ [][NextZero]_vars

(***************************************************************************)
(* C24 -- zero-fill covers the whole pattern extent on either path: after  *)
(* operator=(0) on a matrix bound to a non-empty pattern, values[k] = 0    *)
(* for every k below chunk_size^2 times the number of stored chunks, on    *)
(* the memset path and on the parallel path, for every split of the range  *)
(* and every order of the zeroing tasks.                                   *)
(***************************************************************************)
C24_ZeroFillCoversExtent ==
  op = "operator=(0)" =>
    /\ err = "none"
    /\ \A k \in 0 .. Footprint(PA) - 1 : A.val[k] = 0

\* the parallel path has ended after at least three tasks
C24_Witness ==
  /\ op = "operator=(0)"
  /\ zero_in_parallel(PA)
  /\ Cardinality(DOMAIN tasks) >= 3
  /\ \A t \in DOMAIN tasks : tasks[t].pc = "done"

(***************************************************************************)
(* C25 -- l1_norm() is the largest column sum of the logical matrix: for   *)
(* every bound matrix whose padding is zero it returns the maximum over    *)
(* the logical columns j of the sum over the logical rows i of |A(i,j)|;   *)
(* the column-sum accumulator is accessed only below its length            *)
(* n_chunk_cols * chunk_size, and the sums of the padded columns are 0.    *)
(***************************************************************************)
ColumnSum(P, values, j) ==
  SumTo(LAMBDA i : abs(Entry(P, values, i, j)), 0, P.rows)

LargestColumnSum(P, values) ==
  CHOOSE x \in {ColumnSum(P, values, j) : j \in 0 .. P.cols - 1} \cup {0} :
    \A j \in 0 .. P.cols - 1 : ColumnSum(P, values, j) <= x

C25_L1NormIsLargestColumnSum ==
  (op = "l1_norm" /\ ~Unusable(A) /\ PaddingZero(A)) =>
    /\ err = "none"
    /\ ret = LargestColumnSum(PatOf(A), A.val)
    /\ acc.cidx \subseteq 0 .. PatOf(A).sp_cols * PatOf(A).chunk_size - 1
    /\ \A c \in DOMAIN dst : c >= PatOf(A).cols => dst[c] = 0

\* l1_norm has returned 2, the sum of a column with two entries, on a
\* pattern with a padded column
C25_Witness ==
  /\ op = "l1_norm" /\ err = "none"
  /\ PaddingZero(A)
  /\ PatOf(A).cols % PatOf(A).chunk_size # 0
  /\ ret = 2
  /\ \E c \in DOMAIN dst : c >= PatOf(A).cols

(***************************************************************************)
(* C26 -- n_actually_nonzero_elements() counts the logical nonzeros: in    *)
(* every state reached through reinit, zero-fill, set/add of logical       *)
(* entries, add(factor, other) and copy_from(other) it returns the number  *)
(* of logical (non-padding) stored entries of the bound pattern whose      *)
(* value is not zero.                                                      *)
(***************************************************************************)
C26_CountsLogicalNonzeros ==
  (op = "n_actually_nonzero_elements" /\ A.cols # 0) =>
    /\ err = "none"
    /\ ret = Cardinality({k \in LogicalIdx(PatOf(A)) : A.val[k] # 0})

\* the count is 2 on a pattern whose stored chunks hold padding and more
\* than two logical entries
C26_Witness ==
  /\ op = "n_actually_nonzero_elements" /\ err = "none"
  /\ PaddingIdx(PatOf(A)) # {}
  /\ ret = 2
  /\ Cardinality(LogicalIdx(PatOf(A))) > 2

(***************************************************************************)
(* SpecBuf: the storage operations together with block_read.  "B" is the   *)
(* fixed operand of add and copy_from and the matrix whose block_write     *)
(* fills the stream; "A" is bound, cleared, zero-filled, copied to, added  *)
(* to and read from the stream in any order, so that the stream "A" reads  *)
(* may come from a matrix bound to another pattern.  A call that walks val *)
(* over the extent of the bound pattern while the buffer is shorter than   *)
(* that has undefined behaviour and is not followed.                       *)
(***************************************************************************)
\* max_len >= chunk_size^2 * (number of stored chunks) of the bound pattern
Covers(M) ==
  (M.cols # 0 /\ M.alloc) => M.max_len >= Footprint(pats[M.cols])

NextBuf ==
  \/ Reinit("A")
  \/ Clear("A")
  \/ Covers(A) /\ AssignZero("A")
  \/ Covers(A) /\ CopyFrom("A")
  \/ Covers(A) /\ AddMatrix("A")
  \/ BlockWrite("B")
  \/ BlockRead("A")

SpecBuf == Init /\ [][NextBuf]_vars

(***************************************************************************)
(* C27 -- buffer always covers the bound pattern: in every state reached   *)
(* by reinit, clear, zero-fill, copy_from, add and block_read in which a   *)
(* non-empty pattern is bound and a buffer is allocated, max_len is at     *)
(* least chunk_size^2 times the number of stored chunks of the bound       *)
(* pattern.                                                                *)
(***************************************************************************)
C27_BufferAlwaysCovers == Covers(A)

\* the length block_read finds recorded in the stream
RecordedLength == ReadNat(stream, 2, 0).value

\* C27 with block_read restricted: every step of reinit, clear, zero-fill,
\* copy_from and add keeps max_len at or above the extent of the bound
\* pattern, and reinit establishes it; block_read sets max_len and the
\* buffer length to the length recorded in the stream, so it keeps the
\* buffer covering the pattern exactly when that length is at least the
\* extent of the pattern the reader is bound to.
C27_CoversUnlessShortRead ==
  [][/\ (op' # "block_read" /\ Covers(A)) => Covers(A)'
     /\ op' = "reinit" => Covers(A)'
     /\ (op' = "block_read" /\ err' = "none") =>
          /\ mat'["A"].max_len = RecordedLength
          /\ Size(mat'["A"].val) = RecordedLength
          /\ mat'["A"].cols = mat["A"].cols
          /\ Covers(A)' <=>
               (A.cols # 0 => RecordedLength >= Footprint(PatOf(A)))]_vars

\* block_read has replaced the buffer of a matrix bound to a non-empty
\* pattern by a longer one that holds a nonzero value
C27_Witness ==
  /\ op = "block_read" /\ err = "none"
  /\ A.cols # 0 /\ Footprint(PatOf(A)) > 0
  /\ A.max_len > Footprint(PatOf(A))
  /\ \E k \in DOMAIN A.val : A.val[k] # 0

(***************************************************************************)
(* extract_row_copy(row, array_length, row_length, column_indices,         *)
(* values).  The (column index, value) pairs are kept in the order in      *)
(* which the code writes them through the two output pointers.             *)
(***************************************************************************)
\* ChunkSparsityPattern::row_length(row): the logical columns that the
\* stored chunks of the chunk row of `row` cover
chunk_pattern_row_length(P, row) ==
  Cardinality({j \in 0 .. P.cols - 1 :
                 sp_index(P, row \div P.chunk_size, j \div P.chunk_size) # -1})

RECURSIVE extract_chunks(_, _, _, _, _, _, _)
\* for (; it < itend; ++it): the pairs written from chunk `it` on; val_ptr
\* moves on by one chunk per step.  padded is the branch the call took.
extract_chunks(P, values, padded, it, itend, val_ptr, out) ==
  IF it >= itend THEN out
  ELSE LET chunk_size == P.chunk_size
           next_chunk_size ==
             IF padded /\ P.colnums[it] = P.sp_cols - 1
             THEN P.cols % chunk_size
             ELSE chunk_size
       IN  extract_chunks(P, values, padded, it + 1, itend,
                          val_ptr + chunk_size * chunk_size,
                          out \o [c \in 1 .. next_chunk_size |->
                                    [column |-> P.colnums[it] * chunk_size + (c - 1),
                                     value |-> values[val_ptr + (c - 1)]]])

\* extract_row_copy that copies every chunk in full
extract_row_copy_full_chunks(M, P, row, array_length) ==
  IF row >= P.rows \/ chunk_pattern_row_length(P, row) >= array_length + 1
  THEN [err |-> "ExcIndexRange", row_length |-> 0, pairs |-> << >>]
  ELSE LET chunk_size == P.chunk_size
           reduced_row == row \div chunk_size
           it == P.rowstart[reduced_row]
           itend == P.rowstart[reduced_row + 1]
       IN  [err |-> "none",
            row_length |-> chunk_size * (itend - it),
            pairs |-> extract_chunks(P, M.val, FALSE, it, itend,
                                     it * chunk_size * chunk_size
                                       + (row % chunk_size) * chunk_size,
                                     << >>)]

\* ChunkSparseMatrix::extract_row_copy.  cols->row_length(row) checks the row
\* itself, so a row >= m() ends in ExcIndexRange at the first Assert.
extract_row_copy(M, P, row, array_length) ==
  IF row >= P.rows \/ chunk_pattern_row_length(P, row) >= array_length + 1
  THEN [err |-> "ExcIndexRange", row_length |-> 0, pairs |-> << >>]
  ELSE LET chunk_size == P.chunk_size
           reduced_row == row \div chunk_size
           it == P.rowstart[reduced_row]
           itend == P.rowstart[reduced_row + 1]
           val_ptr == it * chunk_size * chunk_size
                        + (row % chunk_size) * chunk_size
       IN  IF P.cols % chunk_size = 0
           THEN [err |-> "none",
                 row_length |-> chunk_size * (itend - it),
                 pairs |-> extract_chunks(P, M.val, FALSE, it, itend, val_ptr,
                                          << >>)]
           ELSE LET out == extract_chunks(P, M.val, TRUE, it, itend, val_ptr,
                                          << >>)
                IN  [err |-> "none", row_length |-> Len(out), pairs |-> out]

(***************************************************************************)
(* SpecRow: extract_row_copy called on a bound, filled matrix with any row *)
(* up to m() and any array_length up to one more than the widest row.      *)
(* arg holds the arguments, ret row_length, aux the column indices and dst *)
(* the values written.                                                     *)
(***************************************************************************)
NextRow ==
  \/ /\ op = "idle"
     /\ \E row \in 0 .. PA.rows, array_length \in 0 .. PA.cols + 1 :
          LET r == extract_row_copy(A, PA, row, array_length)
          IN  /\ op' = "extract_row_copy"
              /\ arg' = [row |-> row, array_length |-> array_length]
              /\ err' = r.err
              /\ ret' = r.row_length
              /\ aux' = [k \in 0 .. Len(r.pairs) - 1 |-> r.pairs[k + 1].column]
              /\ dst' = [k \in 0 .. Len(r.pairs) - 1 |-> r.pairs[k + 1].value]
     /\ UNCHANGED <<pats, mat, src, acc, tasks, realloc, stream>>
  \/ Return

SpecRow == InitMul /\ [][NextRow]_vars

(***************************************************************************)
(* C28 -- extract_row_copy(row, array_length, ...) for a logical row       *)
(* writes exactly row_length (column index, value) pairs with row_length   *)
(* <= array_length; every written column index is a logical column, the    *)
(* indices are strictly increasing, row_length is the number of logical    *)
(* columns covered by the stored chunks of the row's chunk row, and each   *)
(* written value is the stored entry A(row, column index).  A call whose   *)
(* arrays are shorter than the row is rejected and writes nothing.         *)
(***************************************************************************)
CoveredColumns(P, row) ==
  {j \in 0 .. P.cols - 1 :
     \E k \in P.rowstart[row \div P.chunk_size] ..
                P.rowstart[(row \div P.chunk_size) + 1] - 1 :
       P.colnums[k] = j \div P.chunk_size}

C28_ExtractRowCopy ==
  (op = "extract_row_copy" /\ arg.row < PA.rows) =>
    IF Cardinality(CoveredColumns(PA, arg.row)) <= arg.array_length
    THEN /\ err = "none"
         /\ ret <= arg.array_length
         /\ Size(aux) = ret /\ Size(dst) = ret
         /\ ret = Cardinality(CoveredColumns(PA, arg.row))
         /\ \A k \in DOMAIN aux :
              /\ aux[k] >= 0 /\ aux[k] < PA.cols
              /\ dst[k] = Entry(PA, A.val, arg.row, aux[k])
         /\ \A k \in DOMAIN aux : k > 0 => aux[k - 1] < aux[k]
    ELSE err = "ExcIndexRange" /\ Size(aux) = 0 /\ Size(dst) = 0

\* the second row of a chunk row that stores the chunk of the padded last
\* chunk column and another chunk: three pairs, one of them nonzero
C28_Witness ==
  /\ op = "extract_row_copy" /\ err = "none"
  /\ ColsPadded
  /\ arg.row % PA.chunk_size = 1
  /\ ret = 3
  /\ \E k \in DOMAIN dst : dst[k] # 0

====
